---- MODULE Spec2Model ----
(***************************************************************************)
(* Model of the NFT collage editor: the GridCanvas component (item list,   *)
(* selection, undo/redo history, pointer gestures, toolbar nudges, bulk    *)
(* placement) together with the selection list the App component hands it. *)
(*                                                                         *)
(* Geometry.  The code works in percent of the canvas (0..100) with        *)
(* floating point numbers.  The model counts in twelfths of a percent, so  *)
(* the canvas is Pct(100) = 1200 units wide and cellSize = 100/columns is   *)
(* a whole number of units for every column count the grid selector        *)
(* offers.  Arithmetic is exact; floating point rounding is not modelled.   *)
(*                                                                         *)
(* React.  A handler reads the state of the render that created it and     *)
(* queues its updates; the updates of one handler are applied in order     *)
(* when it returns.  A functional update (setX(prev => ...)) reads the     *)
(* queued value, a plain read reads the render's value.  Each action       *)
(* below is one handler with all the updates it queues applied.            *)
(***************************************************************************)
EXTENDS Integers, Sequences, FiniteSets, TLC

VARIABLES
    items,             \* useState<CanvasItem[]>: the live item list
    gridColumns,       \* useState(12)
    activeItem,        \* useState<string|null>: 0 models null
    snapToGrid,        \* useState(true)
    history,           \* useState<CanvasItem[][]>
    historyIndex,      \* useState(-1), 0-based as in the code
    cropMode,          \* useState(false)
    isDragging,        \* useState(false)
    isResizing,        \* useState(false)
    resizeDirection,   \* useState<ResizeDirection|null>: "none" models null
    interactionStart,  \* useState({x: 0, y: 0})
    initialItemState,  \* useState<CanvasItem|null>: NoItem models null
    selectedNFTs,      \* App: useState<NFT[]>
    listener,          \* what the registered window handlers closed over
    registered,        \* renders whose handlers are on window's listener list
    effectRender,      \* the render in which the listener effect last ran
    nextId,            \* generateUniqueId: ids handed out so far + 1
    alive,             \* FALSE once a render has thrown (items undefined)
    exportStatus,      \* useState('idle'): idle, exporting, success, error
    exportMessage,     \* useState(''): <<>> models '', else <<text, reason>>
    jobs,              \* the calls of downloadCanvas/copyToClipboard so far
    timers,            \* pending setTimeout(..., 3000) callbacks
    uncaught,          \* errors thrown where no catch sees them
    address,           \* WalletManager: useState(''), a sequence of characters
    chain,             \* WalletManager: useState<Blockchain>('ethereum')
    error,             \* WalletManager: useState('')
    localWallets,      \* WalletManager: useState<WalletEntry[]>(wallets)
    wallets,           \* App: useState<WalletEntry[]>([])
    onChangeCalls,     \* calls of the onChange prop so far
    collections,       \* useWalletCollections: useState<NFTCollection[]>([])
    walletNfts,        \* useWalletCollections: nfts, useState<NFT[]>([])
    loading,           \* useWalletCollections: useState(false)
    fetches,           \* the calls of fetchData that went to the network
    last,              \* the last handler that ran, and the list before it
    steps,             \* handlers run so far
    budget             \* handlers the exploration lets run

vars == <<items, gridColumns, activeItem, snapToGrid, history, historyIndex,
          cropMode, isDragging, isResizing, resizeDirection, interactionStart,
          initialItemState, selectedNFTs, listener, registered,
          effectRender, nextId, alive,
          exportStatus, exportMessage, jobs, timers, uncaught, address,
          chain, error, localWallets, wallets, onChangeCalls, collections,
          walletNfts, loading, fetches, last, steps, budget>>

----------------------------------------------------------------------------
(* Units and bounds *)

Pct(n) == n * 12

\* Bounds of the model (not program constants): the number of handler calls
\* explored with every handler (Spec), with the handlers that push and walk
\* the history (SpecHistory), with the handlers that change the geometry of
\* one item (SpecGeometry), and with the handlers that decide where the next
\* item goes (SpecSlot).
MaxSteps == 3
MaxHistorySteps == 7
MaxGeometrySteps == 6
MaxSlotSteps == 6
MaxSelectSteps == 5
MaxCropSteps == 3
MaxResizeSteps == 4
MaxRemoveSteps == 5
MaxStaleSteps == 4
MaxExportSteps == 4
MaxWalletSteps == 5
MaxEdgeSteps == 5
MaxFillSteps == 4
MaxFetchSteps == 4

\* The longest list of free cells of which fillBlankTiles is given every
\* arrangement; of a longer list it is given three.
MaxShuffled == 4

\* The longest list of image references handed to one bulk placement
\* (SpecPack).
MaxPack == 5

\* The column counts the model tries, out of the selector's
\* [4, 6, 8, 10, 12, 16, 24].
ColumnOptions == {4, 12}

cellSizeOf(cols) == Pct(100) \div cols
cellSize == cellSizeOf(gridColumns)

----------------------------------------------------------------------------
(* Assets (the NFT records the wallet layer hands over).  "" is an absent  *)
(* field.                                                                  *)

MkNFT(c, i, ca, t, id, url) ==
    [contract |-> c, identifier |-> i, contract_address |-> ca,
     token_id |-> t, id |-> id, image_url |-> url]

N1 == MkNFT("", "", "0xa", "1", "n1", "u1")
N2 == MkNFT("", "", "0xa", "2", "n2", "u2")
G1 == MkNFT("", "", "", "", "g1", "u3")
Assets == {N1, N2, G1}

\* A second record without contract and token, as handleAddCollectionImage
\* builds it on a second click: another id (Date.now()), the same image_url.
G2 == MkNFT("", "", "", "", "g2", "u3")
SelectAssets == {N1, N2, G1, G2}

NoItem ==
    [id |-> 0, nft |-> MkNFT("", "", "", "", "", ""), x |-> 0, y |-> 0,
     size |-> 0, zIndex |-> 0, cropX |-> 0, cropY |-> 0, cropWidth |-> 0,
     cropHeight |-> 0]

NoListener ==
    [items |-> <<>>, history |-> <<>>, historyIndex |-> -1,
     snapToGrid |-> FALSE, gridColumns |-> 0]

----------------------------------------------------------------------------
(* Small helpers *)

Range(s) == {s[i] : i \in DOMAIN s}
Min(a, b) == IF a <= b THEN a ELSE b
Max(a, b) == IF a >= b THEN a ELSE b
Ids(list) == {list[i].id : i \in DOMAIN list}
ItemById(list, id) == list[CHOOSE i \in DOMAIN list : list[i].id = id]

\* Math.max(...newItems.map(item => item.zIndex), 0)
MaxZIndex(list) ==
    IF list = <<>> THEN 0
    ELSE LET zs == {list[i].zIndex : i \in DOMAIN list} \cup {0}
         IN CHOOSE z \in zs : \A w \in zs : w <= z

\* Math.round(value / cs) * cs
SnapTo(value, cs) == ((2 * value + cs) \div (2 * cs)) * cs

\* snapToGridValue as the render with (snap, cs) defines it
snapToGridValue(value, snap, cs) == IF snap THEN SnapTo(value, cs) ELSE value

----------------------------------------------------------------------------
(* History *)

\* saveToHistory(newItems) called from a handler whose render saw
\* (clHistory, clIndex); (h, i) are the values queued so far.
saveToHistory(clHistory, clIndex, h, i, newItems) ==
    LET h1 == IF clIndex < Len(clHistory) - 1
              THEN SubSeq(clHistory, 1, clIndex + 1)
              ELSE h
    IN [history |-> Append(h1, newItems), historyIndex |-> i + 1]

----------------------------------------------------------------------------
(* Layout engine: findEmptyPosition *)

\* A footprint that stops before the cell the far edge of the item lies on.
FootprintExclusive(item, cs) ==
    {<<col, row>> :
        col \in (item.x \div cs)..((item.x + item.size - 1) \div cs),
        row \in (item.y \div cs)..((item.y + item.size - 1) \div cs)}

\* A footprint of the one cell the top-left corner of the item lies on.
FootprintCorner(item, cs) == {<<item.x \div cs, item.y \div cs>>}

\* The cells one item marks as occupied: floor(x/cs)..floor((x+size)/cs),
\* both ends included, on both axes.
Footprint(item, cs) ==
    {<<col, row>> : col \in (item.x \div cs)..((item.x + item.size) \div cs),
                    row \in (item.y \div cs)..((item.y + item.size) \div cs)}

occupiedCells(list, cs) == UNION {Footprint(list[i], cs) : i \in DOMAIN list}

\* Math.ceil(defaultSize / cellSize) with defaultSize = cellSize * 2
BlockCells(cs) == (cs * 2 + cs - 1) \div cs

\* The (col, row) pairs at which the scan finds every cell of the block free.
FreeBlocks(list, cs) ==
    LET occ == occupiedCells(list, cs)
        maxRow == (Pct(100) \div cs) - BlockCells(cs) + 1
        maxCol == (Pct(100) \div cs) - BlockCells(cs) + 1
    IN {p \in (0..(maxCol - 1)) \X (0..(maxRow - 1)) :
           \A c \in 0..(BlockCells(cs) - 1), r \in 0..(BlockCells(cs) - 1) :
               <<p[1] + c, p[2] + r>> \notin occ}

\* The first hit of "for row ... for col ...".
FirstBlock(blocks) ==
    CHOOSE p \in blocks :
        \A q \in blocks : p[2] < q[2] \/ (p[2] = q[2] /\ p[1] <= q[1])

\* Math.random() * (100 - defaultSize): the values the model tries.
RandomPicks(limit) == {0, limit \div 3}

\* Every result findEmptyPosition can return for the list a render saw.
findEmptyPosition(list, cs) ==
    LET defaultSize == cs * 2
        blocks == FreeBlocks(list, cs)
    IN IF blocks # {}
       THEN {[x |-> FirstBlock(blocks)[1] * cs, y |-> FirstBlock(blocks)[2] * cs,
              size |-> defaultSize]}
       ELSE {[x |-> rx, y |-> ry, size |-> defaultSize] :
                rx \in RandomPicks(Pct(100) - defaultSize),
                ry \in RandomPicks(Pct(100) - defaultSize)}

----------------------------------------------------------------------------
(* addNFT, and a run of addNFT calls made by one reconciliation effect *)

NewItem(id, nft, pos, z) ==
    [id |-> id, nft |-> nft, x |-> pos.x, y |-> pos.y, size |-> pos.size,
     zIndex |-> z, cropX |-> 0, cropY |-> 0, cropWidth |-> 100,
     cropHeight |-> 100]

\* One addNFT(nft) of a render that saw (clItems, clHistory, clIndex); q holds
\* the values queued so far.  The result is the set of possible new queues.
addNFT(nft, clItems, clHistory, clIndex, cs, q) ==
    {LET newItem == NewItem(q.nextId, nft, pos, Len(clItems) + 1)
         newItems == Append(clItems, newItem)
         saved == saveToHistory(clHistory, clIndex, q.history, q.historyIndex,
                                newItems)
     IN [items |-> newItems, activeItem |-> newItem.id,
         history |-> saved.history, historyIndex |-> saved.historyIndex,
         nextId |-> q.nextId + 1]
     : pos \in findEmptyPosition(clItems, cs)}

RECURSIVE addEach(_, _, _, _, _, _)
\* newNFTs.forEach(nft => addNFT(nft))
addEach(nfts, clItems, clHistory, clIndex, cs, q) ==
    IF nfts = <<>> THEN {q}
    ELSE UNION {addEach(Tail(nfts), clItems, clHistory, clIndex, cs, q1) :
                   q1 \in addNFT(Head(nfts), clItems, clHistory, clIndex, cs, q)}

----------------------------------------------------------------------------
(* External selection: App.handleSelectNFT and the reconciliation effect *)

\* The callback of selectedNFTs.some(...) in handleSelectNFT
sameSelected(s, nft) ==
    IF s.contract_address # "" /\ nft.contract_address # ""
       /\ s.token_id # "" /\ nft.token_id # ""
    THEN s.contract_address = nft.contract_address /\ s.token_id = nft.token_id
    ELSE IF s.id # "" /\ nft.id # ""
    THEN s.id = nft.id
    ELSE s.image_url = nft.image_url

isAlreadySelected(sel, nft) == \E i \in DOMAIN sel : sameSelected(sel[i], nft)

\* The identifier the effect computes for an NFT
nftId(nft) ==
    IF nft.contract # "" /\ nft.identifier # ""
    THEN <<nft.contract, "-", nft.identifier>>
    ELSE IF nft.contract_address # "" /\ nft.token_id # ""
    THEN <<nft.contract_address, "-", nft.token_id>>
    ELSE IF nft.image_url # "" THEN <<nft.image_url>> ELSE <<"unknown">>

existingNFTs(list) == {nftId(list[i].nft) : i \in DOMAIN list}

\* selectedNFTs.filter(nft => !existingNFTs.has(nftId))
newNFTs(sel, list) ==
    SelectSeq(sel, LAMBDA nft : nftId(nft) \notin existingNFTs(list))

----------------------------------------------------------------------------
(* Bookkeeping shared by the actions *)

\* The record of the handler that just ran: its name, the live list it
\* started from, the number of saveToHistory calls it made (and the same of
\* the handler before it), the NFT of a selection or the arguments of a bulk
\* add, and the number of onClearSelection calls it made.
Called(op, pushes, nfts, minCount, signals) ==
    /\ steps < budget
    /\ steps' = steps + 1
    /\ budget' = budget
    /\ last' = [op |-> op, prev |-> last.op, pre |-> items, pushes |-> pushes,
                prevPushes |-> last.pushes, nfts |-> nfts,
                minCount |-> minCount, signals |-> signals]

\* The state of the export, which only the export handlers touch.
exportVars == <<exportStatus, exportMessage, jobs, timers, uncaught>>

\* The state of the wallet panel, which only its own handlers touch.
walletVars == <<address, chain, error, localWallets, wallets, onChangeCalls>>

\* The state of useWalletCollections, which follows App's wallet list.
fetchVars == <<collections, walletNfts, loading, fetches>>

\* A handler of the canvas: it leaves the export and the wallets alone.
Ran(op, pushes, nfts, minCount, signals) ==
    /\ Called(op, pushes, nfts, minCount, signals)
    /\ UNCHANGED exportVars
    /\ UNCHANGED walletVars
    /\ UNCHANGED fetchVars

\* A handler that leaves the history alone, and one that pushes one entry.
Note(op) == Ran(op, 0, <<>>, 0, 0)
Commit(op) == Ran(op, 1, <<>>, 0, 0)

\* The dependency array of the effect that registers the window listeners.
Deps(d, r, a, dir, start, init) == <<d, r, a, dir, start, init>>

\* window.addEventListener / removeEventListener: a render is named by the
\* number of the handler call it follows, and stands for the handleMouseMove
\* and handleMouseUp it created, which the effect adds and removes as a pair.
AddListeners(onWindow, render) == onWindow \cup {render}
RemoveListeners(onWindow, render) == onWindow \ {render}

\* The effect runs after a render in which a dependency changed (fresh: a
\* setter stored a new object).
EffectRuns(fresh) ==
    \/ fresh
    \/ Deps(isDragging', isResizing', activeItem', resizeDirection',
            interactionStart', initialItemState')
          # Deps(isDragging, isResizing, activeItem, resizeDirection,
                 interactionStart, initialItemState)

\* What the handlers registered after this step closed over.
Closure(fresh) ==
    IF isDragging' \/ isResizing'
    THEN IF EffectRuns(fresh)
         THEN [items |-> items', history |-> history',
               historyIndex |-> historyIndex', snapToGrid |-> snapToGrid',
               gridColumns |-> gridColumns']
         ELSE listener
    ELSE NoListener

\* The effect without its cleanup function.
ListenerEffectNoCleanup(fresh) ==
    /\ listener' = Closure(fresh)
    /\ effectRender' = IF EffectRuns(fresh) THEN steps + 1 ELSE effectRender
    /\ registered' =
          IF EffectRuns(fresh) /\ (isDragging' \/ isResizing')
          THEN AddListeners(registered, steps + 1)
          ELSE registered

\* useEffect(..., [isDragging, isResizing, activeItem, resizeDirection,
\* interactionStart, initialItemState]): when it runs, the cleanup of its
\* last run removes the handlers of that run's render, and the handlers of
\* the new render are added if a gesture is in progress.  A render that
\* throws unmounts the component, which runs the cleanup as well.
ListenerEffect(fresh) ==
    /\ listener' = Closure(fresh)
    /\ effectRender' = IF EffectRuns(fresh) THEN steps + 1 ELSE effectRender
    /\ registered' =
          IF ~alive'
          THEN RemoveListeners(registered, effectRender)
          ELSE IF EffectRuns(fresh)
          THEN LET cleaned == RemoveListeners(registered, effectRender)
               IN IF isDragging' \/ isResizing'
                  THEN AddListeners(cleaned, steps + 1)
                  ELSE cleaned
          ELSE registered

Registered == isDragging \/ isResizing

gestureVars == <<isDragging, isResizing, resizeDirection, interactionStart,
                 initialItemState>>
gridVars == <<gridColumns, snapToGrid>>
histVars == <<history, historyIndex>>

----------------------------------------------------------------------------
(* Initial state: the first render of App and GridCanvas *)

StartWith(cols) ==
    /\ items = <<>>
    /\ gridColumns = cols
    /\ activeItem = 0
    /\ snapToGrid = TRUE
    /\ history = <<>>
    /\ historyIndex = -1
    /\ cropMode = FALSE
    /\ isDragging = FALSE
    /\ isResizing = FALSE
    /\ resizeDirection = "none"
    /\ interactionStart = [x |-> 0, y |-> 0]
    /\ initialItemState = NoItem
    /\ selectedNFTs = <<>>
    /\ listener = NoListener
    /\ registered = {}
    /\ effectRender = 0
    /\ nextId = 1
    /\ alive = TRUE
    /\ exportStatus = "idle"
    /\ exportMessage = <<>>
    /\ jobs = <<>>
    /\ timers = 0
    /\ uncaught = 0
    /\ address = <<>>
    /\ chain = "ethereum"
    /\ error = ""
    /\ localWallets = <<>>
    /\ wallets = <<>>
    /\ onChangeCalls = 0
    /\ collections = <<>>
    /\ walletNfts = <<>>
    /\ loading = FALSE
    /\ fetches = <<>>
    /\ last = [op |-> "init", prev |-> "init", pre |-> <<>>, pushes |-> 0,
               prevPushes |-> 0, nfts |-> <<>>, minCount |-> 0, signals |-> 0]
    /\ steps = 0

\* useState(12)
Start == StartWith(12)

Init == Start /\ budget = MaxSteps

----------------------------------------------------------------------------
(* Selection from the NFT list: handleSelectNFT, then the effect on        *)
(* [selectedNFTs], which calls addNFT once per NFT that is not on the      *)
(* canvas; every call reads the items, history and historyIndex of the     *)
(* same render.                                                            *)

SelectNFT(nft) ==
    /\ alive
    /\ UNCHANGED <<gridVars, cropMode, gestureVars, alive>>
    /\ IF isAlreadySelected(selectedNFTs, nft)
       THEN /\ Ran("selectNFT", 0, <<nft>>, 0, 0)
            /\ UNCHANGED <<items, activeItem, histVars, selectedNFTs, nextId,
                           listener, registered, effectRender>>
       ELSE /\ selectedNFTs' = Append(selectedNFTs, nft)
            /\ Ran("selectNFT", Len(newNFTs(selectedNFTs', items)), <<nft>>,
                   0, 0)
            /\ LET new == newNFTs(selectedNFTs', items)
                   q0 == [items |-> items, activeItem |-> activeItem,
                          history |-> history, historyIndex |-> historyIndex,
                          nextId |-> nextId]
               IN \E q \in addEach(new, items, history, historyIndex,
                                   cellSize, q0) :
                        /\ items' = q.items
                        /\ activeItem' = q.activeItem
                        /\ history' = q.history
                        /\ historyIndex' = q.historyIndex
                        /\ nextId' = q.nextId
            /\ ListenerEffect(FALSE)

----------------------------------------------------------------------------
(* removeItem, clearCanvas *)

\* A removeItem that clears the active item whatever the id is.
removeItemDeselects(id) ==
    LET newItems == SelectSeq(items, LAMBDA item : item.id # id)
        saved == saveToHistory(history, historyIndex, history, historyIndex,
                               newItems)
    IN /\ items' = newItems
       /\ activeItem' = 0
       /\ history' = saved.history
       /\ historyIndex' = saved.historyIndex

removeItem(id) ==
    LET newItems == SelectSeq(items, LAMBDA item : item.id # id)
        saved == saveToHistory(history, historyIndex, history, historyIndex,
                               newItems)
    IN /\ items' = newItems
       /\ activeItem' = IF activeItem = id THEN 0 ELSE activeItem
       /\ history' = saved.history
       /\ historyIndex' = saved.historyIndex

\* The floating toolbar is rendered inside every item, when an item is
\* active.
ToolbarShown == activeItem # 0 /\ items # <<>>

\* The remove button next to the handles of the active item, or the
\* toolbar's removeItem(activeItem).
RemoveItem ==
    /\ alive
    /\ ToolbarShown
    /\ removeItem(activeItem)
    /\ Commit("removeItem")
    /\ UNCHANGED <<gridVars, cropMode, gestureVars, selectedNFTs, nextId, alive>>
    /\ ListenerEffect(FALSE)

\* removeItem(id) called with the id of any item, active or not, or with an
\* id that no item has.
RemoveById(id) ==
    /\ alive
    /\ removeItem(id)
    /\ Commit("removeItem")
    /\ UNCHANGED <<gridVars, cropMode, gestureVars, selectedNFTs, nextId, alive>>
    /\ ListenerEffect(FALSE)

\* clearCanvas in a parent that passes no onClearSelection: the selection
\* list of the parent survives the clear.
ClearCanvasKeepSelection ==
    /\ alive
    /\ LET saved == saveToHistory(history, historyIndex, history, historyIndex,
                                  <<>>)
       IN /\ items' = <<>>
          /\ activeItem' = 0
          /\ history' = saved.history
          /\ historyIndex' = saved.historyIndex
    /\ selectedNFTs' = selectedNFTs
    /\ Ran("clearCanvas", 1, <<>>, 0, 0)
    /\ UNCHANGED <<gridVars, cropMode, gestureVars, nextId, alive>>
    /\ ListenerEffect(FALSE)

\* clearCanvas, with App.handleClearSelectedNFTs as onClearSelection.
ClearCanvas ==
    /\ alive
    /\ LET saved == saveToHistory(history, historyIndex, history, historyIndex,
                                  <<>>)
       IN /\ items' = <<>>
          /\ activeItem' = 0
          /\ history' = saved.history
          /\ historyIndex' = saved.historyIndex
    /\ selectedNFTs' = <<>>
    /\ Ran("clearCanvas", 1, <<>>, 0, 1)
    /\ UNCHANGED <<gridVars, cropMode, gestureVars, nextId, alive>>
    /\ ListenerEffect(FALSE)

----------------------------------------------------------------------------
(* undo, redo *)

\* setItems(h[i]) for a 0-based index i: an index outside the array reads
\* undefined, and the next render throws on items.map.
SetItemsFrom(h, i) ==
    IF i >= 0 /\ i < Len(h)
    THEN items' = h[i + 1] /\ alive' = TRUE
    ELSE items' = <<>> /\ alive' = FALSE

Undo ==
    /\ alive
    /\ IF historyIndex > 0
       THEN /\ historyIndex' = historyIndex - 1
            /\ SetItemsFrom(history, historyIndex - 1)
       ELSE UNCHANGED <<historyIndex, items, alive>>
    /\ Note("undo")
    /\ UNCHANGED <<gridVars, activeItem, history, cropMode, gestureVars,
                   selectedNFTs, nextId>>
    /\ ListenerEffect(FALSE)

Redo ==
    /\ alive
    /\ IF historyIndex < Len(history) - 1
       THEN /\ historyIndex' = historyIndex + 1
            /\ SetItemsFrom(history, historyIndex + 1)
       ELSE UNCHANGED <<historyIndex, items, alive>>
    /\ Note("redo")
    /\ UNCHANGED <<gridVars, activeItem, history, cropMode, gestureVars,
                   selectedNFTs, nextId>>
    /\ ListenerEffect(FALSE)

----------------------------------------------------------------------------
(* Pointer gestures: handleMouseDown, handleResizeStart, handleMouseMove,  *)
(* handleMouseUp.  The two window handlers are those of the render the     *)
(* listener effect last ran in: they read that render's items, history,    *)
(* historyIndex, snapToGrid and cellSize.                                  *)

ResizeDirections == {"n", "s", "e", "w", "ne", "nw", "se", "sw"}

\* The handles the model grabs on the full canvas.
CanvasDirections == {"se", "w"}

\* The pointer positions (in canvas units) the model moves the pointer to.
PointerTargets == {[x |-> Pct(110), y |-> 0], [x |-> 50, y |-> 150]}

\* Where the pointer goes down: on the top-left corner of an item's body, on
\* the handle of the named direction.
BodyPoint(item) == [x |-> item.x, y |-> item.y]
HandlePoint(item, dir) ==
    [x |-> IF dir \in {"w", "nw", "sw"} THEN item.x
           ELSE IF dir \in {"e", "ne", "se"} THEN item.x + item.size
           ELSE item.x + item.size \div 2,
     y |-> IF dir \in {"n", "ne", "nw"} THEN item.y
           ELSE IF dir \in {"s", "se", "sw"} THEN item.y + item.size
           ELSE item.y + item.size \div 2]

\* A selectItem that raises the item to the current maximum, not above it.
selectItemToMax(list, id) ==
    [i \in DOMAIN list |->
        IF list[i].id = id /\ i = (CHOOSE j \in DOMAIN list : list[j].id = id)
        THEN [list[i] EXCEPT !.zIndex = MaxZIndex(list)]
        ELSE list[i]]

\* The functional update of selectItem: bring the item to the front.
selectItem(list, id) ==
    [i \in DOMAIN list |->
        IF list[i].id = id /\ i = (CHOOSE j \in DOMAIN list : list[j].id = id)
        THEN [list[i] EXCEPT !.zIndex = MaxZIndex(list) + 1]
        ELSE list[i]]

MouseDown(id) ==
    /\ alive
    /\ id \in Ids(items)
    /\ activeItem' = id
    /\ items' = selectItem(items, id)
    /\ isDragging' = TRUE
    /\ isResizing' = FALSE
    /\ interactionStart' = BodyPoint(ItemById(items, id))
    /\ initialItemState' = ItemById(items, id)
    /\ Note("mouseDown")
    /\ UNCHANGED <<gridVars, histVars, cropMode, resizeDirection, selectedNFTs,
                   nextId, alive>>
    /\ ListenerEffect(TRUE)

\* An id that generateUniqueId has not handed out.
AbsentId == 99

\* selectItem(id) called on its own, with the id of an item or with an id
\* that no item has: setActiveItem(id), then the functional update.
SelectItem(id) ==
    /\ alive
    /\ activeItem' = id
    /\ items' = selectItem(items, id)
    /\ Note("selectItem")
    /\ UNCHANGED <<gridVars, histVars, cropMode, gestureVars, selectedNFTs,
                   nextId, alive>>
    /\ ListenerEffect(FALSE)

\* The handles are rendered on the active item only.
ResizeStart(id, direction) ==
    /\ alive
    /\ id \in Ids(items)
    /\ activeItem = id
    /\ activeItem' = id
    /\ items' = selectItem(items, id)
    /\ isDragging' = FALSE
    /\ isResizing' = TRUE
    /\ resizeDirection' = direction
    /\ interactionStart' = HandlePoint(ItemById(items, id), direction)
    /\ initialItemState' = ItemById(items, id)
    /\ Note("resizeStart")
    /\ UNCHANGED <<gridVars, histVars, cropMode, selectedNFTs, nextId, alive>>
    /\ ListenerEffect(TRUE)

\* The drag branch of handleMouseMove for the active item.
dragFrame(item, init, deltaX, deltaY, snap, cs) ==
    LET sx == snapToGridValue(init.x + deltaX, snap, cs)
        sy == snapToGridValue(init.y + deltaY, snap, cs)
    IN [item EXCEPT !.x = Max(0, Min(Pct(100) - item.size, sx)),
                    !.y = Max(0, Min(Pct(100) - item.size, sy))]

effectiveDelta(direction, deltaX, deltaY) ==
    CASE direction = "e" -> deltaX
      [] direction = "w" -> -deltaX
      [] direction = "s" -> deltaY
      [] direction = "n" -> -deltaY
      [] direction = "ne" -> Max(deltaX, -deltaY)
      [] direction = "nw" -> Max(-deltaX, -deltaY)
      [] direction = "se" -> Max(deltaX, deltaY)
      [] direction = "sw" -> Max(-deltaX, deltaY)

\* direction.includes(letter)
Includes(direction, letter) ==
    CASE letter = "e" -> direction \in {"e", "ne", "se"}
      [] letter = "w" -> direction \in {"w", "nw", "sw"}
      [] letter = "s" -> direction \in {"s", "se", "sw"}
      [] letter = "n" -> direction \in {"n", "ne", "nw"}

\* The resize branch of handleMouseMove for the active item.
resizeFrame(item, init, direction, deltaX, deltaY, snap, cs) ==
    LET d == effectiveDelta(direction, deltaX, deltaY)
        grown == init.size + d
        x1 == IF ~Includes(direction, "e") /\ Includes(direction, "w")
              THEN init.x + init.size - grown ELSE init.x
        y1 == IF ~Includes(direction, "e") /\ ~Includes(direction, "w")
                 /\ ~Includes(direction, "s") /\ Includes(direction, "n")
              THEN init.y + init.size - grown ELSE init.y
        size1 == Max(cs, grown)
        x2 == Max(0, snapToGridValue(x1, snap, cs))
        y2 == Max(0, snapToGridValue(y1, snap, cs))
        size2 == snapToGridValue(size1, snap, cs)
    IN [item EXCEPT !.x = x2, !.y = y2,
                    !.size = Min(Min(Pct(100) - x2, Pct(100) - y2), size2)]

MouseMove(target) ==
    /\ alive
    /\ Registered
    /\ LET deltaX == target.x - interactionStart.x
           deltaY == target.y - interactionStart.y
           snap == listener.snapToGrid
           cs == cellSizeOf(listener.gridColumns)
       IN items' =
            IF activeItem = 0 \/ initialItemState = NoItem
            THEN items
            ELSE IF isDragging
            THEN [i \in DOMAIN items |->
                    IF items[i].id = activeItem
                    THEN dragFrame(items[i], initialItemState, deltaX, deltaY,
                                   snap, cs)
                    ELSE items[i]]
            ELSE IF isResizing /\ resizeDirection # "none"
            THEN [i \in DOMAIN items |->
                    IF items[i].id = activeItem
                    THEN resizeFrame(items[i], initialItemState,
                                     resizeDirection, deltaX, deltaY, snap, cs)
                    ELSE items[i]]
            ELSE items
    /\ Note("mouseMove")
    /\ UNCHANGED <<gridVars, activeItem, histVars, cropMode, gestureVars,
                   selectedNFTs, nextId, alive>>
    /\ ListenerEffect(FALSE)

MouseUp ==
    /\ alive
    /\ Registered
    /\ LET saved == saveToHistory(listener.history, listener.historyIndex,
                                  history, historyIndex, listener.items)
       IN /\ history' = saved.history
          /\ historyIndex' = saved.historyIndex
    /\ isDragging' = FALSE
    /\ isResizing' = FALSE
    /\ resizeDirection' = "none"
    /\ initialItemState' = NoItem
    /\ Commit("mouseUp")
    /\ UNCHANGED <<items, gridVars, activeItem, cropMode, interactionStart,
                   selectedNFTs, nextId, alive>>
    /\ ListenerEffect(FALSE)

----------------------------------------------------------------------------
(* Toolbar nudges: moveActiveItem, resizeActiveItem.  The functional       *)
(* update changes the live list; saveToHistory gets the render's list.     *)

moveActiveItem(list, active, dx, dy, snap, cs) ==
    [i \in DOMAIN list |->
        IF list[i].id = active
        THEN LET newX == Max(0, Min(Pct(100) - list[i].size, list[i].x + dx))
                 newY == Max(0, Min(Pct(100) - list[i].size, list[i].y + dy))
             IN [list[i] EXCEPT !.x = snapToGridValue(newX, snap, cs),
                                !.y = snapToGridValue(newY, snap, cs)]
        ELSE list[i]]

resizeActiveItem(list, active, delta, snap, cs) ==
    [i \in DOMAIN list |->
        IF list[i].id = active
        THEN LET newSize ==
                   Max(cs, Min(Min(Pct(100) - list[i].x, Pct(100) - list[i].y),
                               list[i].size + delta))
             IN [list[i] EXCEPT !.size = snapToGridValue(newSize, snap, cs)]
        ELSE list[i]]

\* What a nudge handler does with the list it computed.
Nudge(op, newItems) ==
    /\ alive
    /\ ToolbarShown
    /\ IF activeItem = 0
       THEN UNCHANGED <<items, histVars>> /\ Note(op)
       ELSE LET saved == saveToHistory(history, historyIndex, history,
                                       historyIndex, items)
            IN /\ items' = newItems
               /\ history' = saved.history
               /\ historyIndex' = saved.historyIndex
               /\ Commit(op)
    /\ UNCHANGED <<gridVars, activeItem, cropMode, gestureVars, selectedNFTs,
                   nextId, alive>>
    /\ ListenerEffect(FALSE)

\* The four arrows call moveActiveItem with one cell in one direction.
MoveActiveItem(dx, dy) ==
    Nudge("moveActiveItem",
          moveActiveItem(items, activeItem, dx, dy, snapToGrid, cellSize))

\* Plus and minus call resizeActiveItem with one cell.
ResizeActiveItem(delta) ==
    Nudge("resizeActiveItem",
          resizeActiveItem(items, activeItem, delta, snapToGrid, cellSize))

----------------------------------------------------------------------------
(* Crop dialog: toggleCropMode, the Apply Crop and Cancel buttons *)

updateCrop(item, cropX, cropY, cropWidth, cropHeight) ==
    [item EXCEPT !.cropX = Max(0, Min(100, cropX)),
                 !.cropY = Max(0, Min(100, cropY)),
                 !.cropWidth = Max(10, Min(100 - cropX, cropWidth)),
                 !.cropHeight = Max(10, Min(100 - cropY, cropHeight))]

\* Arguments tried for a direct call of updateCrop (percent of the image).
CropOffsets == {-20, 0, 90, 95}
CropExtents == {5, 50, 120}

\* The handler updateCrop(cropX, cropY, cropWidth, cropHeight): the update
\* reads the queued list, the history entry is the list of the render.
UpdateCrop(cropX, cropY, cropWidth, cropHeight) ==
    /\ alive
    /\ activeItem # 0
    /\ LET saved == saveToHistory(history, historyIndex, history, historyIndex,
                                  items)
       IN /\ items' = [i \in DOMAIN items |->
                          IF items[i].id = activeItem
                          THEN updateCrop(items[i], cropX, cropY, cropWidth,
                                          cropHeight)
                          ELSE items[i]]
          /\ history' = saved.history
          /\ historyIndex' = saved.historyIndex
    /\ Commit("updateCrop")
    /\ UNCHANGED <<gridVars, activeItem, cropMode, gestureVars, selectedNFTs,
                   nextId, alive>>
    /\ ListenerEffect(FALSE)

\* activeItemData is defined
HasActiveItemData == activeItem # 0 /\ activeItem \in Ids(items)

\* The crop buttons are rendered when an item is active.
ToggleCropMode ==
    /\ alive
    /\ activeItem # 0
    /\ cropMode' = ~cropMode
    /\ Note("toggleCropMode")
    /\ UNCHANGED <<items, gridVars, activeItem, histVars, gestureVars,
                   selectedNFTs, nextId, alive>>
    /\ ListenerEffect(FALSE)

\* Apply Crop: updateCrop with the crop of activeItemData, setCropMode(false).
ApplyCrop ==
    /\ alive
    /\ cropMode
    /\ HasActiveItemData
    /\ LET a == ItemById(items, activeItem)
           saved == saveToHistory(history, historyIndex, history, historyIndex,
                                  items)
       IN /\ items' = [i \in DOMAIN items |->
                          IF items[i].id = activeItem
                          THEN updateCrop(items[i], a.cropX, a.cropY,
                                          a.cropWidth, a.cropHeight)
                          ELSE items[i]]
          /\ history' = saved.history
          /\ historyIndex' = saved.historyIndex
    /\ cropMode' = FALSE
    /\ Commit("updateCrop")
    /\ UNCHANGED <<gridVars, activeItem, gestureVars, selectedNFTs, nextId,
                   alive>>
    /\ ListenerEffect(FALSE)

CancelCrop ==
    /\ alive
    /\ cropMode
    /\ HasActiveItemData
    /\ cropMode' = FALSE
    /\ Note("cancelCrop")
    /\ UNCHANGED <<items, gridVars, activeItem, histVars, gestureVars,
                   selectedNFTs, nextId, alive>>
    /\ ListenerEffect(FALSE)

----------------------------------------------------------------------------
(* Grid controls *)

ToggleSnap ==
    /\ alive
    /\ snapToGrid' = ~snapToGrid
    /\ Note("setSnapToGrid")
    /\ UNCHANGED <<items, gridColumns, activeItem, histVars, cropMode,
                   gestureVars, selectedNFTs, nextId, alive>>
    /\ ListenerEffect(FALSE)

SetGridColumns(cols) ==
    /\ alive
    /\ cols # gridColumns
    /\ gridColumns' = cols
    /\ Note("setGridColumns")
    /\ UNCHANGED <<items, snapToGrid, activeItem, histVars, cropMode,
                   gestureVars, selectedNFTs, nextId, alive>>
    /\ ListenerEffect(FALSE)

----------------------------------------------------------------------------
(* Bulk placement: addMultipleNFTs *)

\* The results of [...list].sort(() => Math.random() - 0.5): every
\* arrangement of the same elements.
Shuffles(list) ==
    {t \in [DOMAIN list -> Range(list)] :
        \A v \in Range(list) :
            Cardinality({i \in DOMAIN list : t[i] = v})
                = Cardinality({i \in DOMAIN list : list[i] = v})}

\* availableCells as first built: row by row, column by column.
allCells(gridSize) ==
    [k \in 1..(gridSize * gridSize) |->
        [row |-> (k - 1) \div gridSize, col |-> (k - 1) % gridSize]]

\* A fit test that looks at the corner cell only.
canFitCorner(availSet, cell, m, gridSize) == cell \in availSet

\* "check if block fits": the block of m x m cells at cell lies in the grid
\* and all its cells are still available.
canFit(availSet, cell, m, gridSize) ==
    \A r \in 0..(m - 1), c \in 0..(m - 1) :
        /\ cell.row + r < gridSize
        /\ cell.col + c < gridSize
        /\ [row |-> cell.row + r, col |-> cell.col + c] \in availSet

\* The sizes at which some available cell fits.
fittingSizes(availSet, maxSize, gridSize) ==
    {m \in 1..maxSize : \E cell \in availSet : canFit(availSet, cell, m, gridSize)}

RECURSIVE firstFit(_, _, _, _, _)
\* "for (let i = 0; i < availableCells.length; i++)": the first index from i
\* on whose cell fits a block of m x m (one exists).
firstFit(avail, availSet, i, m, gridSize) ==
    IF canFit(availSet, avail[i], m, gridSize) THEN i
    ELSE firstFit(avail, availSet, i + 1, m, gridSize)

\* A placement that tries the largest size only.
tryPlaceNFTNoShrink(st, nft, index, maxSize, cs, gridSize) ==
    LET availSet == Range(st.avail)
    IN IF ~\E cell \in availSet : canFit(availSet, cell, maxSize, gridSize)
       THEN st
       ELSE LET i == firstFit(st.avail, availSet, 1, maxSize, gridSize)
                cell == st.avail[i]
                pos == [x |-> cell.col * cs, y |-> cell.row * cs,
                        size |-> cs * maxSize]
            IN [avail |-> SelectSeq(st.avail, LAMBDA ac :
                              ~(/\ ac.row \in cell.row..(cell.row + maxSize - 1)
                                /\ ac.col \in cell.col..(cell.col + maxSize - 1))),
                newItems |-> Append(st.newItems,
                                    NewItem(st.nextId, nft, pos, index + 1)),
                nextId |-> st.nextId + 1]

\* tryPlaceNFT(nft, index, maxSize) on the state st = [avail, newItems, nextId]:
\* the largest size that fits, at the first available cell where it fits.
tryPlaceNFT(st, nft, index, maxSize, cs, gridSize) ==
    LET availSet == Range(st.avail)
        sizes == fittingSizes(availSet, maxSize, gridSize)
    IN IF sizes = {} THEN st
       ELSE LET m == CHOOSE a \in sizes : \A b \in sizes : b <= a
                i == firstFit(st.avail, availSet, 1, m, gridSize)
                cell == st.avail[i]
                pos == [x |-> cell.col * cs, y |-> cell.row * cs, size |-> cs * m]
            IN [avail |-> SelectSeq(st.avail, LAMBDA ac :
                              ~(/\ ac.row \in cell.row..(cell.row + m - 1)
                                /\ ac.col \in cell.col..(cell.col + m - 1))),
                newItems |-> Append(st.newItems,
                                    NewItem(st.nextId, nft, pos, index + 1)),
                nextId |-> st.nextId + 1]

RECURSIVE placeAll(_, _, _, _, _)
\* Step 1: shuffledNFTs.forEach((nft, index) => tryPlaceNFT(nft, index, 3)),
\* from the 0-based index on.
placeAll(st, shuffled, index, cs, gridSize) ==
    IF index >= Len(shuffled) THEN st
    ELSE placeAll(tryPlaceNFT(st, shuffled[index + 1], index, 3, cs, gridSize),
                  shuffled, index + 1, cs, gridSize)

RECURSIVE fillTo(_, _, _, _, _)
\* Step 2: the while loop that takes available cells from the front as 1x1
\* tiles until minCount items exist or no cell is left.
fillTo(st, shuffled, fillerIndex, minCount, cs) ==
    IF ~(Len(st.newItems) < minCount /\ Len(st.avail) > 0) THEN st
    ELSE LET cell == Head(st.avail)
             nft == shuffled[(fillerIndex % Len(shuffled)) + 1]
             pos == [x |-> cell.col * cs, y |-> cell.row * cs, size |-> cs]
         IN fillTo([avail |-> Tail(st.avail),
                    newItems |-> Append(st.newItems,
                                        NewItem(st.nextId, nft, pos,
                                                Len(st.newItems) + 1)),
                    nextId |-> st.nextId + 1],
                   shuffled, fillerIndex + 1, minCount, cs)

\* A bulk placement without the filler loop.
packMultipleNoFill(shuffled, minCount, cs, firstId) ==
    placeAll([avail |-> allCells(Pct(100) \div cs), newItems |-> <<>>,
              nextId |-> firstId],
             shuffled, 0, cs, Pct(100) \div cs)

\* The state after both steps, for one outcome of the shuffle.
packMultiple(shuffled, minCount, cs, firstId) ==
    LET gridSize == Pct(100) \div cs
        st0 == [avail |-> allCells(gridSize), newItems |-> <<>>,
                nextId |-> firstId]
        st1 == placeAll(st0, shuffled, 0, cs, gridSize)
    IN IF Len(st1.newItems) < minCount
       THEN fillTo(st1, shuffled, 0, minCount, cs)
       ELSE st1

\* A bulk placement that leaves the active item as it is.
addMultipleNFTsKeepActive(nftsToAdd, minCount) ==
    /\ alive
    /\ Ran("addMultipleNFTs", IF nftsToAdd = <<>> THEN 0 ELSE 1, nftsToAdd,
           minCount, 0)
    /\ UNCHANGED <<gridVars, cropMode, gestureVars, selectedNFTs, alive>>
    /\ IF nftsToAdd = <<>>
       THEN UNCHANGED <<items, activeItem, histVars, nextId>>
       ELSE \E shuffled \in Shuffles(nftsToAdd) :
               LET st == packMultiple(shuffled, minCount, cellSize, nextId)
                   saved == saveToHistory(history, historyIndex, history,
                                          historyIndex, st.newItems)
               IN /\ items' = st.newItems
                  /\ activeItem' = activeItem
                  /\ history' = saved.history
                  /\ historyIndex' = saved.historyIndex
                  /\ nextId' = st.nextId
    /\ ListenerEffect(FALSE)

addMultipleNFTs(nftsToAdd, minCount) ==
    /\ alive
    /\ Ran("addMultipleNFTs", IF nftsToAdd = <<>> THEN 0 ELSE 1, nftsToAdd,
           minCount, 0)
    /\ UNCHANGED <<gridVars, cropMode, gestureVars, selectedNFTs, alive>>
    /\ IF nftsToAdd = <<>>
       THEN UNCHANGED <<items, activeItem, histVars, nextId>>
       ELSE \E shuffled \in Shuffles(nftsToAdd) :
               LET st == packMultiple(shuffled, minCount, cellSize, nextId)
                   saved == saveToHistory(history, historyIndex, history,
                                          historyIndex, st.newItems)
               IN /\ items' = st.newItems
                  /\ activeItem' = 0
                  /\ history' = saved.history
                  /\ historyIndex' = saved.historyIndex
                  /\ nextId' = st.nextId
    /\ ListenerEffect(FALSE)

\* The bulk requests the model makes on the full canvas.
BulkInputs == {<<>>, <<N1>>, <<N1, N2>>}
BulkCounts == {1, 3}

AddMultipleNFTs ==
    \E nftsToAdd \in BulkInputs, minCount \in BulkCounts :
        addMultipleNFTs(nftsToAdd, minCount)

----------------------------------------------------------------------------
(* Filling the blank cells: fillBlankTiles *)

\* availableCells that takes every cell of the grid as free.
availableCellsAll(list, cs) == allCells(Pct(100) \div cs)

\* availableCells as first built: row by row, column by column, without
\* the cells of occupiedCells (built as in findEmptyPosition).
availableCells(list, cs) ==
    LET occupied == occupiedCells(list, cs)
    IN SelectSeq(allCells(Pct(100) \div cs),
                 LAMBDA cell : <<cell.col, cell.row>> \notin occupied)

Reversed(list) == [i \in DOMAIN list |-> list[Len(list) + 1 - i]]
Rotated(list) ==
    [i \in DOMAIN list |-> list[((i + (Len(list) \div 2) - 1) % Len(list)) + 1]]

\* availableCells.sort(() => Math.random() - 0.5): every arrangement of a
\* short list; of a longer one the list as built, reversed, and rotated by
\* half its length.
CellShuffles(cells) ==
    IF Len(cells) <= MaxShuffled
    THEN {[i \in DOMAIN cells |-> cells[perm[i]]] :
             perm \in Permutations(DOMAIN cells)}
    ELSE {cells, Reversed(cells), Rotated(cells)}

\* nftIndex after j rounds of the loop: nftIndex++, and back to 0 when it
\* reaches shuffledNFTs.length.
nftIndexAfter(j, shuffledNFTs) == j % Len(shuffledNFTs)

\* while (availableCells.length > 0 && nftIndex < shuffledNFTs.length) {...}:
\* the loop ends before the first round whose test fails; round j takes the
\* j-th cell and the image at the index the rounds before it left.
fillLoop(cells, shuffledNFTs, newItems, id, cs) ==
    LET goesOn(j) == /\ Len(cells) - j > 0
                     /\ nftIndexAfter(j, shuffledNFTs) < Len(shuffledNFTs)
        rounds == CHOOSE n \in 0..Len(cells) :
                      /\ ~goesOn(n)
                      /\ \A j \in 0..(n - 1) : goesOn(j)
        newItem(j) ==
            NewItem(id + j - 1,
                    shuffledNFTs[nftIndexAfter(j - 1, shuffledNFTs) + 1],
                    [x |-> cells[j].col * cs, y |-> cells[j].row * cs,
                     size |-> cs],
                    Len(newItems) + j)
    IN [newItems |-> newItems \o [j \in 1..rounds |-> newItem(j)],
        nextId |-> id + rounds]

fillBlankTiles(nfts) ==
    /\ alive
    /\ Ran("fillBlankTiles", IF nfts = <<>> THEN 0 ELSE 1, nfts, 0, 0)
    /\ UNCHANGED <<gridVars, activeItem, cropMode, gestureVars, selectedNFTs,
                   alive>>
    /\ IF nfts = <<>>
       THEN UNCHANGED <<items, histVars, nextId>>
       ELSE \E cells \in CellShuffles(availableCells(items, cellSize)),
               shuffledNFTs \in Shuffles(nfts) :
               LET st == fillLoop(cells, shuffledNFTs, items, nextId, cellSize)
                   saved == saveToHistory(history, historyIndex, history,
                                          historyIndex, st.newItems)
               IN /\ items' = st.newItems
                  /\ history' = saved.history
                  /\ historyIndex' = saved.historyIndex
                  /\ nextId' = st.nextId
    /\ ListenerEffect(FALSE)

\* The pools the model hands over.
FillInputs == {<<>>, <<N1>>, <<N1, N2>>}

FillBlankTiles == \E nfts \in FillInputs : fillBlankTiles(nfts)

----------------------------------------------------------------------------
(* Export: exportCanvas, downloadCanvas, copyToClipboard.  A call runs up   *)
(* to its first await in the click handler; every await after that (an     *)
(* image load, the toBlob callback, the clipboard write) is a step of its   *)
(* own, so that calls and canvas handlers interleave as in the browser.     *)

canvasVars == <<items, gridColumns, activeItem, snapToGrid, history,
                historyIndex, cropMode, isDragging, isResizing,
                resizeDirection, interactionStart, initialItemState,
                selectedNFTs, listener, registered, effectRender, nextId,
                   alive>>

\* [...items].sort((a, b) => a.zIndex - b.zIndex), kept in list order.
sortedItemsAsListed(list) == list

\* [...items].sort((a, b) => a.zIndex - b.zIndex): Array.prototype.sort is
\* stable, so the rank of an element counts the smaller zIndex values and the
\* equal ones before it.
sortedItems(list) ==
    LET n == Len(list)
        rank(i) == 1 + Cardinality({j \in 1..n :
                          \/ list[j].zIndex < list[i].zIndex
                          \/ list[j].zIndex = list[i].zIndex /\ j < i})
    IN [k \in 1..n |-> list[CHOOSE i \in 1..n : rank(i) = k]]

\* The messages of the two catch blocks.
ExportFailed(reason) == <<"Export failed: ", reason>>
CopyFailed(reason) == <<"Copy failed: ", reason>>

\* What the environment does to an export at its start.
Environments == {"ok", "no canvas element", "no 2d context"}

\* A call that has reached its first image load: the list of its render,
\* the sorted items still to load, the items whose image loaded or failed,
\* the loaded items that got no context of their own, the items drawn, the
\* blob, and whether navigator.clipboard.write was found.
NewJob(kind, list) ==
    [kind |-> kind, pc |-> "load", items |-> list, queue |-> sortedItems(list),
     loaded |-> <<>>, failed |-> <<>>, noContext |-> <<>>, drawn |-> <<>>,
     blob |-> FALSE, clipboard |-> "unknown"]

\* The effect of one step of a call on the export state.
Outcome(job, status, message, newTimers, newUncaught) ==
    [job |-> job, status |-> status, message |-> message,
     timers |-> newTimers, uncaught |-> newUncaught]

\* The step leaves exportStatus and exportMessage as they are.
Quiet(job) == Outcome(job, exportStatus, exportMessage, 0, 0)

\* exportCanvas throws before its first await: its catch sets the error and
\* rethrows; copyToClipboard's catch sets its own message and a timer,
\* downloadCanvas's catch only logs.
exportThrows(job, reason) ==
    IF job.kind = "copy"
    THEN Outcome([job EXCEPT !.pc = "failed"], "error", CopyFailed(reason), 1, 0)
    ELSE Outcome([job EXCEPT !.pc = "failed"], "error", ExportFailed(reason),
                 0, 0)

\* The synchronous start of exportCanvas.
exportCanvas(job, env) ==
    IF env = "no canvas element"
    THEN exportThrows(job, "Canvas element not found")
    ELSE IF env = "no 2d context"
    THEN exportThrows(job, "Could not get canvas context")
    ELSE Outcome(job, "exporting", <<"Generating image...", "">>, 0, 0)

\* The next iteration of "for (const item of sortedItems)", or the toBlob
\* call after the last one.
nextItem(job) ==
    [job EXCEPT !.queue = Tail(job.queue),
                !.pc = IF Tail(job.queue) = <<>> THEN "encode" ELSE "load"]

\* A loadImage rejection that is not caught in the loop: the export ends.
imageFailedAborts(job) ==
    [job EXCEPT !.failed = Append(job.failed, Head(job.queue)),
                !.pc = "failed"]

\* loadImage rejects: the catch in the loop logs and the loop goes on.
imageFailed(job) ==
    nextItem([job EXCEPT !.failed = Append(job.failed, Head(job.queue))])

\* loadImage resolves: the item is drawn, unless it gets no 2d context of
\* its own ("if (!itemCtx) continue").
imageLoaded(job, itemCtx) ==
    nextItem([job EXCEPT
                !.loaded = Append(job.loaded, Head(job.queue)),
                !.drawn = IF itemCtx THEN Append(job.drawn, Head(job.queue))
                          ELSE job.drawn,
                !.noContext = IF itemCtx THEN job.noContext
                              ELSE Append(job.noContext, Head(job.queue))])

\* A copyToClipboard that calls navigator.clipboard.write without looking
\* for it: the TypeError of the call lands in the catch.
blobReadyUnchecked(job, clipboard) ==
    IF job.kind = "download"
    THEN Outcome([job EXCEPT !.blob = TRUE, !.pc = "done"], "success",
                 <<"Image downloaded successfully!", "">>, 1, 0)
    ELSE IF clipboard
    THEN Quiet([job EXCEPT !.blob = TRUE, !.pc = "write",
                           !.clipboard = "present"])
    ELSE Outcome([job EXCEPT !.blob = TRUE, !.pc = "failed",
                             !.clipboard = "absent"],
                 "error", CopyFailed("Cannot read properties of undefined"),
                 1, 0)

\* The toBlob callback gets a blob and the promise resolves: downloadCanvas
\* clicks its link and reports success; copyToClipboard awaits
\* navigator.clipboard.write, or throws when that is missing.
blobReady(job, clipboard) ==
    IF job.kind = "download"
    THEN Outcome([job EXCEPT !.blob = TRUE, !.pc = "done"], "success",
                 <<"Image downloaded successfully!", "">>, 1, 0)
    ELSE IF clipboard
    THEN Quiet([job EXCEPT !.blob = TRUE, !.pc = "write",
                           !.clipboard = "present"])
    ELSE Outcome([job EXCEPT !.blob = TRUE, !.pc = "failed",
                             !.clipboard = "absent"],
                 "error", CopyFailed("Clipboard API not supported"), 1, 0)

\* The toBlob callback gets null: it throws inside the callback, where
\* neither the promise nor a catch sees it, and the promise never settles.
blobMissing(job) ==
    Outcome([job EXCEPT !.pc = "hung"], exportStatus, exportMessage, 0, 1)

\* navigator.clipboard.write settles.
clipboardWritten(job, ok) ==
    IF ok
    THEN Outcome([job EXCEPT !.pc = "done"], "success",
                 <<"Image copied to clipboard!", "">>, 1, 0)
    ELSE Outcome([job EXCEPT !.pc = "failed"], "error",
                 CopyFailed("Write permission denied"), 1, 0)

\* The export state after a step with the given outcome for call j
\* (j = Len(jobs) + 1 for a new call).
Settle(j, out) ==
    /\ jobs' = IF j \in DOMAIN jobs THEN [jobs EXCEPT ![j] = out.job]
               ELSE Append(jobs, out.job)
    /\ exportStatus' = out.status
    /\ exportMessage' = out.message
    /\ timers' = timers + out.timers
    /\ uncaught' = uncaught + out.uncaught

\* A step of a running call: no handler of the user is involved.
Background ==
    UNCHANGED <<canvasVars, walletVars, fetchVars, last, steps, budget>>

\* The Download PNG and Copy to Clipboard buttons.
ExportEnabled == alive /\ items # <<>> /\ exportStatus # "exporting"

StartExport(kind) ==
    /\ ExportEnabled
    /\ \E env \in Environments :
          Settle(Len(jobs) + 1, exportCanvas(NewJob(kind, items), env))
    /\ Called(kind, 0, <<>>, 0, 0)
    /\ UNCHANGED <<canvasVars, walletVars, fetchVars>>

DownloadCanvas == StartExport("download")
CopyToClipboard == StartExport("copy")

\* The image of the item at the head of the queue loads, or fails to.
ImageSettles(j) ==
    /\ jobs[j].pc = "load"
    /\ \/ \E itemCtx \in BOOLEAN : Settle(j, Quiet(imageLoaded(jobs[j], itemCtx)))
       \/ Settle(j, Quiet(imageFailed(jobs[j])))
    /\ Background

\* The toBlob callback runs.
ToBlob(j) ==
    /\ jobs[j].pc = "encode"
    /\ \/ \E clipboard \in BOOLEAN : Settle(j, blobReady(jobs[j], clipboard))
       \/ Settle(j, blobMissing(jobs[j]))
    /\ Background

\* The clipboard write settles.
ClipboardWrite(j) ==
    /\ jobs[j].pc = "write"
    /\ \E ok \in BOOLEAN : Settle(j, clipboardWritten(jobs[j], ok))
    /\ Background

\* A setTimeout callback: setExportStatus('idle'), setExportMessage('').
TimerFires ==
    /\ timers > 0
    /\ timers' = timers - 1
    /\ exportStatus' = "idle"
    /\ exportMessage' = <<>>
    /\ UNCHANGED <<jobs, uncaught>>
    /\ Background

\* The steps that need no user.
ExportProgress ==
    \/ \E j \in DOMAIN jobs : ImageSettles(j)
    \/ \E j \in DOMAIN jobs : ToBlob(j)
    \/ \E j \in DOMAIN jobs : ClipboardWrite(j)
    \/ TimerFires

----------------------------------------------------------------------------
(* WalletManager: the address field, the chain selector, the Add button    *)
(* and the Remove buttons.  An address is the sequence of its characters.  *)

Repeat(c, n) == [i \in 1..n |-> c]

HexDigits ==
    {"0", "1", "2", "3", "4", "5", "6", "7", "8", "9", "a", "b", "c", "d",
     "e", "f", "A", "B", "C", "D", "E", "F"}

\* /0x[a-fA-F0-9]{40}/.test(address): the pattern found anywhere in the text.
isValidAddressUnanchored(a) ==
    \E k \in 0..(Len(a) - 42) :
        /\ a[k + 1] = "0"
        /\ a[k + 2] = "x"
        /\ \A i \in 3..42 : a[k + i] \in HexDigits

\* /^0x[a-fA-F0-9]{40}$/.test(address)
isValidAddress(a) ==
    /\ Len(a) = 42
    /\ a[1] = "0"
    /\ a[2] = "x"
    /\ \A i \in 3..42 : a[i] \in HexDigits

\* const chains = [ethereum, abstract, base]
Blockchains == {"ethereum", "abstract", "base"}

\* What the model types into the address field: two addresses of the right
\* shape that differ in letter case only, one with digits, and texts that
\* are empty, too short, too long, padded, not hexadecimal, or without the
\* lower-case 0x in front.
LowerAddress == <<"0", "x">> \o Repeat("a", 40)
UpperAddress == <<"0", "x">> \o Repeat("A", 40)
DigitAddress == <<"0", "x">> \o Repeat("9", 20) \o Repeat("f", 20)
TypedAddresses ==
    {LowerAddress, UpperAddress, DigitAddress,
     <<>>,
     <<"0", "x">> \o Repeat("a", 39),
     <<"0", "x">> \o Repeat("a", 41),
     <<"0", "x">> \o Repeat("a", 39) \o <<"g">>,
     <<"0", "X">> \o Repeat("a", 40),
     Repeat("a", 42),
     LowerAddress \o <<" ">>,
     <<" ">> \o LowerAddress}

\* What the model takes the service to answer for a wallet: a collection
\* that every wallet holds and one of its own, and one NFT.
CollectionsOf(wallet) ==
    <<[slug |-> <<"shared">>],
      [slug |-> <<"own", wallet.address, wallet.chain>>]>>
NFTsOf(wallet) == <<[owner |-> wallet]>>

\* allCollections.reduce(...): the first entry of every slug, in order.
uniqueCollections(allCollections) ==
    LET keep == {i \in DOMAIN allCollections :
                    \A j \in 1..(i - 1) :
                        allCollections[j].slug # allCollections[i].slug}
        nth(k) == CHOOSE i \in keep :
                      Cardinality({j \in keep : j < i}) = k - 1
    IN [k \in 1..Cardinality(keep) |-> allCollections[nth(k)]]

\* A call of fetchData that passed the test for an empty list: the wallets
\* of its render, the wallet it is waiting for, the await it is at, and what
\* it has collected.
NewFetch(list) ==
    [wallets |-> list, at |-> 1, pc |-> "collections",
     allCollections |-> <<>>, allNFTs |-> <<>>]

\* useEffect(() => { fetchData() }, [fetchData]) after App's wallet list was
\* replaced: fetchData up to its first await.  (The error message and the
\* pagination cursors of the hook are left out.)
fetchData(list) ==
    IF list = <<>>
    THEN /\ collections' = <<>>
         /\ walletNfts' = <<>>
         /\ UNCHANGED <<loading, fetches>>
    ELSE /\ loading' = TRUE
         /\ fetches' = Append(fetches, NewFetch(list))
         /\ UNCHANGED <<collections, walletNfts>>

\* An await of fetchData settles: fetchCollections or fetchNFTsByAccount for
\* the wallet the call is at resolves (ok) or rejects; a rejection is caught
\* and the loop goes on with the next wallet.  After the last wallet the
\* call sets collections, nfts and loading.
FetchSettles(j) ==
    /\ fetches[j].pc \in {"collections", "nfts"}
    /\ \E ok \in BOOLEAN :
          LET job == fetches[j]
              wallet == job.wallets[job.at]
              after ==
                  IF job.pc = "collections" /\ ok
                  THEN [job EXCEPT !.allCollections = @ \o CollectionsOf(wallet),
                                   !.pc = "nfts"]
                  ELSE [job EXCEPT !.allNFTs = IF ok THEN @ \o NFTsOf(wallet)
                                               ELSE @,
                                   !.at = @ + 1,
                                   !.pc = "collections"]
          IN IF after.at > Len(job.wallets)
             THEN /\ fetches' = [fetches EXCEPT ![j] = [after EXCEPT !.pc = "done"]]
                  /\ collections' = uniqueCollections(after.allCollections)
                  /\ walletNfts' = after.allNFTs
                  /\ loading' = FALSE
             ELSE /\ fetches' = [fetches EXCEPT ![j] = after]
                  /\ UNCHANGED <<collections, walletNfts, loading>>
    /\ UNCHANGED <<canvasVars, exportVars, walletVars, last, steps, budget>>

\* A handler of the wallet panel: it leaves the canvas and the export alone.
WalletRan(op) ==
    /\ Called(op, 0, <<>>, 0, 0)
    /\ UNCHANGED <<items, gridColumns, activeItem, snapToGrid, history,
                   historyIndex, cropMode, isDragging, isResizing,
                   resizeDirection, interactionStart, initialItemState,
                   selectedNFTs, listener, registered, effectRender, nextId,
                   alive>>
    /\ UNCHANGED exportVars

\* onChange={e => setAddress(e.target.value)}
SetAddress(a) ==
    /\ address' = a
    /\ UNCHANGED <<chain, error, localWallets, wallets, onChangeCalls>>
    /\ UNCHANGED fetchVars
    /\ WalletRan("setAddress")

\* onChange={e => setChain(e.target.value as Blockchain)}
SetChain(c) ==
    /\ chain' = c
    /\ UNCHANGED <<address, error, localWallets, wallets, onChangeCalls>>
    /\ UNCHANGED fetchVars
    /\ WalletRan("setChain")

\* localWallets.some(w => w.address === address && w.chain === chain)
AlreadyAdded(list, a, c) ==
    \E i \in DOMAIN list : list[i].address = a /\ list[i].chain = c

\* handleAdd; onChange is App's handleWalletsChange, which stores the list,
\* and the new list makes the effect of useWalletCollections call fetchData.
HandleAdd ==
    /\ IF ~isValidAddress(address)
       THEN /\ error' = "Invalid address"
            /\ UNCHANGED <<address, localWallets, wallets, onChangeCalls>>
            /\ UNCHANGED fetchVars
       ELSE IF AlreadyAdded(localWallets, address, chain)
       THEN /\ error' = "Wallet already added"
            /\ UNCHANGED <<address, localWallets, wallets, onChangeCalls>>
            /\ UNCHANGED fetchVars
       ELSE LET newWallets ==
                    Append(localWallets,
                           [address |-> address, chain |-> chain])
            IN /\ localWallets' = newWallets
               /\ address' = <<>>
               /\ error' = ""
               /\ wallets' = newWallets
               /\ onChangeCalls' = onChangeCalls + 1
               /\ fetchData(newWallets)
    /\ UNCHANGED chain
    /\ WalletRan("handleAdd")

\* handleRemove(idx): localWallets.filter((_, i) => i !== idx)
HandleRemove(idx) ==
    /\ idx \in DOMAIN localWallets
    /\ LET newWallets ==
               SubSeq(localWallets, 1, idx - 1)
                   \o SubSeq(localWallets, idx + 1, Len(localWallets))
       IN /\ localWallets' = newWallets
          /\ wallets' = newWallets
          /\ fetchData(newWallets)
    /\ onChangeCalls' = onChangeCalls + 1
    /\ UNCHANGED <<address, chain, error>>
    /\ WalletRan("handleRemove")

InitWallet == Start /\ budget = MaxWalletSteps

NextWallet ==
    \/ \E a \in TypedAddresses : SetAddress(a)
    \/ \E c \in Blockchains : SetChain(c)
    \/ HandleAdd
    \/ \E idx \in DOMAIN localWallets : HandleRemove(idx)

SpecWallet == InitWallet /\ [][NextWallet]_vars

\* The wallet panel with two addresses, and the fetches its changes start.
InitFetch == Start /\ budget = MaxFetchSteps

NextFetch ==
    \/ \E a \in {LowerAddress, UpperAddress} : SetAddress(a)
    \/ HandleAdd
    \/ \E idx \in DOMAIN localWallets : HandleRemove(idx)
    \/ \E j \in DOMAIN fetches : FetchSettles(j)

SpecFetch == InitFetch /\ [][NextFetch]_vars

----------------------------------------------------------------------------
(* The canvas with the handlers of its pointer, keyboard and toolbar       *)
(* events, selections and bulk placements.  Fills, exports, the wallet     *)
(* panel and the wallet data are explored by specifications of their own.  *)

Next ==
    \/ \E nft \in Assets : SelectNFT(nft)
    \/ RemoveItem
    \/ ClearCanvas
    \/ Undo
    \/ Redo
    \/ \E id \in Ids(items) : MouseDown(id)
    \/ \E id \in Ids(items), direction \in CanvasDirections :
          ResizeStart(id, direction)
    \/ \E target \in PointerTargets : MouseMove(target)
    \/ MouseUp
    \/ \E d \in {<<0, -cellSize>>, <<-cellSize, 0>>, <<cellSize, 0>>,
                 <<0, cellSize>>} : MoveActiveItem(d[1], d[2])
    \/ \E delta \in {cellSize, -cellSize} : ResizeActiveItem(delta)
    \/ ToggleCropMode
    \/ ApplyCrop
    \/ CancelCrop
    \/ ToggleSnap
    \/ \E cols \in ColumnOptions : SetGridColumns(cols)
    \/ AddMultipleNFTs

Spec == Init /\ [][Next]_vars

----------------------------------------------------------------------------
(* The same canvas, explored deeper with the handlers that push and walk   *)
(* the history.                                                            *)

InitHistory == Start /\ budget = MaxHistorySteps

NextHistory ==
    \/ \E nft \in Assets : SelectNFT(nft)
    \/ RemoveItem
    \/ ClearCanvas
    \/ Undo
    \/ Redo
    \/ \E id \in Ids(items) : MouseDown(id)
    \/ MouseUp

SpecHistory == InitHistory /\ [][NextHistory]_vars

----------------------------------------------------------------------------
(* Selection events only (no remove, clear, undo or bulk add), with two    *)
(* records that share an image URL, and selectItem between them: through   *)
(* a pointer press on an item, or called on its own.                       *)

InitSelect == Start /\ budget = MaxSelectSteps

NextSelect ==
    \/ \E nft \in SelectAssets : SelectNFT(nft)
    \/ \E id \in Ids(items) : MouseDown(id)
    \/ MouseUp
    \/ \E id \in Ids(items) \cup {AbsentId} : SelectItem(id)

SpecSelect == InitSelect /\ [][NextSelect]_vars

----------------------------------------------------------------------------
(* updateCrop called with arguments of every kind on the item of one       *)
(* asset.                                                                  *)

InitCrop == Start /\ budget = MaxCropSteps

NextCrop ==
    \/ SelectNFT(N1)
    \/ \E cropX, cropY \in CropOffsets : \E cropWidth, cropHeight \in CropExtents :
          UpdateCrop(cropX, cropY, cropWidth, cropHeight)

SpecCrop == InitCrop /\ [][NextCrop]_vars

----------------------------------------------------------------------------
(* removeItem called with any id, on canvases built by selections, pointer *)
(* presses and undo.                                                       *)

InitRemove == Start /\ budget = MaxRemoveSteps

NextRemove ==
    \/ \E nft \in Assets : SelectNFT(nft)
    \/ \E id \in Ids(items) : MouseDown(id)
    \/ MouseUp
    \/ \E id \in Ids(items) \cup {AbsentId} : RemoveById(id)
    \/ Undo

SpecRemove == InitRemove /\ [][NextRemove]_vars

----------------------------------------------------------------------------
(* Handlers that act on the active item, on canvases where undo or a       *)
(* remove may have taken the active item away, also in the middle of a     *)
(* gesture.                                                                *)

InitStale == Start /\ budget = MaxStaleSteps

NextStale ==
    \/ \E nft \in {N1, N2} : SelectNFT(nft)
    \/ Undo
    \/ RemoveItem
    \/ \E id \in Ids(items) : MouseDown(id)
    \/ \E target \in PointerTargets : MouseMove(target)
    \/ MouseUp
    \/ MoveActiveItem(cellSize, 0)
    \/ ResizeActiveItem(cellSize)
    \/ UpdateCrop(0, 0, 50, 50)

SpecStale == InitStale /\ [][NextStale]_vars

----------------------------------------------------------------------------
(* Exports of canvases with up to two items, which a pointer press may     *)
(* have reordered.  SpecExportFair adds what the browser guarantees: an    *)
(* image load, a toBlob callback, a clipboard write and a timer that are   *)
(* pending do happen.                                                      *)

InitExport == Start /\ budget = MaxExportSteps

NextExport ==
    \/ \E nft \in {N1, N2} : SelectNFT(nft)
    \/ \E id \in Ids(items) : MouseDown(id)
    \/ DownloadCanvas
    \/ CopyToClipboard
    \/ \E j \in DOMAIN jobs : ImageSettles(j)
    \/ \E j \in DOMAIN jobs : ToBlob(j)
    \/ \E j \in DOMAIN jobs : ClipboardWrite(j)
    \/ TimerFires

SpecExport == InitExport /\ [][NextExport]_vars

SpecExportFair == SpecExport /\ WF_vars(ExportProgress)

----------------------------------------------------------------------------
(* Canvases of 4 and 12 columns with items placed before and after a      *)
(* change of the column count (which leaves them off the new grid), and    *)
(* the blank cells filled from pools of one and two images.                *)

InitFill == Start /\ budget = MaxFillSteps

NextFill ==
    \/ \E nft \in {N1, N2} : SelectNFT(nft)
    \/ \E cols \in ColumnOptions : SetGridColumns(cols)
    \/ FillBlankTiles

SpecFill == InitFill /\ [][NextFill]_vars

----------------------------------------------------------------------------
(* One item, snapping switched on and off, and resize gestures from each   *)
(* of the eight handles.                                                   *)

InitEdge == Start /\ budget = MaxEdgeSteps

NextEdge ==
    \/ SelectNFT(N1)
    \/ ToggleSnap
    \/ \E id \in Ids(items), direction \in ResizeDirections :
          ResizeStart(id, direction)
    \/ \E target \in PointerTargets : MouseMove(target)
    \/ MouseUp

SpecEdge == InitEdge /\ [][NextEdge]_vars

----------------------------------------------------------------------------
(* The same canvas, explored deeper with one asset and the handlers that   *)
(* change the geometry of its item.                                        *)

InitGeometry == Start /\ budget = MaxGeometrySteps

NextGeometry ==
    \/ SelectNFT(N1)
    \/ \E id \in Ids(items) : MouseDown(id)
    \/ \E id \in Ids(items), direction \in CanvasDirections :
          ResizeStart(id, direction)
    \/ \E target \in PointerTargets : MouseMove(target)
    \/ MouseUp
    \/ \E d \in {<<0, -cellSize>>, <<-cellSize, 0>>, <<cellSize, 0>>,
                 <<0, cellSize>>} : MoveActiveItem(d[1], d[2])
    \/ \E delta \in {cellSize, -cellSize} : ResizeActiveItem(delta)
    \/ ToggleSnap
    \/ \E cols \in ColumnOptions : SetGridColumns(cols)

SpecGeometry == InitGeometry /\ [][NextGeometry]_vars

----------------------------------------------------------------------------
(* A canvas whose column count stays 12: adds, bulk adds, resize gestures  *)
(* from each of the eight handles, the toolbar resize, undo and redo.      *)

InitResize == Start /\ budget = MaxResizeSteps

NextResize ==
    \/ SelectNFT(N1)
    \/ AddMultipleNFTs
    \/ \E id \in Ids(items), direction \in ResizeDirections :
          ResizeStart(id, direction)
    \/ \E target \in PointerTargets : MouseMove(target)
    \/ MouseUp
    \/ \E delta \in {cellSize, -cellSize} : ResizeActiveItem(delta)
    \/ Undo
    \/ Redo

SpecResize == InitResize /\ [][NextResize]_vars

----------------------------------------------------------------------------
(* The same canvas, explored deeper with the handlers that decide where    *)
(* findEmptyPosition puts the next item: the items already there, dragged  *)
(* with and without snapping, and the grid.                                *)

InitSlot == Start /\ budget = MaxSlotSteps

NextSlot ==
    \/ \E nft \in Assets : SelectNFT(nft)
    \/ \E id \in Ids(items) : MouseDown(id)
    \/ \E target \in PointerTargets : MouseMove(target)
    \/ MouseUp
    \/ ToggleSnap
    \/ \E cols \in ColumnOptions : SetGridColumns(cols)

SpecSlot == InitSlot /\ [][NextSlot]_vars

----------------------------------------------------------------------------
(* Bulk placement on its own: one request on an empty canvas, for each     *)
(* column count, list of references and requested count below.             *)

\* Column counts out of the selector's options: 4 leaves an L of single
\* cells around the first block, 6 and 12 are filled by 3 x 3 blocks alone,
\* 8 leaves a strip two cells wide.
PackColumns == {4, 6, 8, 12}

\* The lists of 1..MaxPack references to two assets, up to their order (the
\* shuffle tries every order).
PackInputs ==
    UNION {{[i \in 1..n |-> IF i <= a THEN N1 ELSE N2] : a \in 0..n} :
              n \in 1..MaxPack}

\* The requested counts: below and above the number of references, and above
\* the number of cells of the 4 and 6 column grids.
PackCounts == {1, 5, 8, 17, 37}

InitPack == \E cols \in PackColumns : StartWith(cols) /\ budget = 1

NextPack ==
    \E nftsToAdd \in PackInputs, minCount \in PackCounts :
        addMultipleNFTs(nftsToAdd, minCount)

SpecPack == InitPack /\ [][NextPack]_vars

----------------------------------------------------------------------------
(* Properties of the canvas at rest and of its history *)

InBounds(item) ==
    /\ 0 <= item.x
    /\ 0 <= item.y
    /\ item.x + item.size <= Pct(100)
    /\ item.y + item.size <= Pct(100)

\* No gesture is in progress.
AtRest == alive /\ ~isDragging /\ ~isResizing

\* C1: whenever the canvas is at rest (after any sequence of committed
\* operations, with snapping on or off), every item satisfies 0 <= x, 0 <= y,
\* x + size <= 100 and y + size <= 100.
C1_BoundsInvariant == AtRest => \A i \in DOMAIN items : InBounds(items[i])

\* C2: undo right after a single committed mutation M makes the live list
\* the list before M, and redo right after that undo makes it the list after
\* M (the list the undo started from).
C2_UndoRedoRoundTrip ==
    [][/\ (alive /\ last.pushes = 1 /\ last'.op = "undo")
            => (alive' /\ items' = last.pre)
       /\ (alive /\ last.op = "undo" /\ last.prevPushes = 1
             /\ last'.op = "redo")
            => (alive' /\ items' = last.pre)]_vars

\* C3: right after every committed mutation the history entry at the
\* current index is the live item list.
C3_SnapshotIsLiveList ==
    (alive /\ last.pushes >= 1)
        => /\ historyIndex + 1 \in DOMAIN history
           /\ history[historyIndex + 1] = items

\* C4: whenever the history is not empty, 0 <= historyIndex < history.length.
C4_HistoryIndexInRange ==
    (alive /\ history # <<>>)
        => (0 <= historyIndex /\ historyIndex < Len(history))

\* C5: right after a committed mutation that follows an undo, the history
\* holds no entry after the current index (so redo has nothing to restore).
C5_RedoDiscarded ==
    (alive /\ last.pushes >= 1 /\ last.prev = "undo")
        => ~(historyIndex < Len(history) - 1)

\* C6: undo at index 0 or with an empty history, and redo at the last index,
\* change neither the items nor the history nor the index; otherwise they
\* move the index by exactly 1, set the live list to the snapshot at the new
\* index and leave the history as it was.
C6_UndoRedoBoundaries ==
    [][/\ (alive /\ last'.op = "undo")
            => IF historyIndex <= 0
               THEN UNCHANGED <<items, history, historyIndex>>
               ELSE /\ historyIndex' = historyIndex - 1
                    /\ history' = history
                    /\ historyIndex' + 1 \in DOMAIN history
                    /\ alive'
                    /\ items' = history[historyIndex' + 1]
       /\ (alive /\ last'.op = "redo")
            => IF historyIndex >= Len(history) - 1
               THEN UNCHANGED <<items, history, historyIndex>>
               ELSE /\ historyIndex' = historyIndex + 1
                    /\ history' = history
                    /\ historyIndex' + 1 \in DOMAIN history
                    /\ alive'
                    /\ items' = history[historyIndex' + 1]]_vars

----------------------------------------------------------------------------
(* Properties of findEmptyPosition, read off the item a selection adds *)

\* A selection that added exactly one item: the item is the last of the
\* list, and the list before it is the one findEmptyPosition scanned.
AddedOne == alive /\ last.op = "selectNFT" /\ last.pushes = 1
AddedItem == items[Len(items)]

\* The block of 2 x 2 cells at (col, row) holds no cell c with
\* floor(x/cs) <= c <= floor((x+size)/cs) on both axes, for any item.
BlockClear(list, cs, col, row) ==
    \A i \in DOMAIN list :
        \A c \in {col, col + 1}, r \in {row, row + 1} :
            ~(/\ list[i].x \div cs <= c
              /\ c <= (list[i].x + list[i].size) \div cs
              /\ list[i].y \div cs <= r
              /\ r <= (list[i].y + list[i].size) \div cs)

\* The positions (col, row) at which a 2 x 2 block lies in the grid and
\* is clear.
ClearBlocks(list, cols, cs) ==
    {p \in (0..(cols - 2)) \X (0..(cols - 2)) : BlockClear(list, cs, p[1], p[2])}

\* C7: the item findEmptyPosition places has size 2 * cellSize and sits at
\* the first position, row by row from the top-left, whose 2 x 2 block holds
\* no cell of an existing item's footprint; on an empty canvas it is
\* (0, 0, 2 * cellSize).
C7_FirstFreeBlock ==
    AddedOne =>
        LET list == last.pre
            clear == ClearBlocks(list, gridColumns, cellSize)
            at == <<AddedItem.x \div cellSize, AddedItem.y \div cellSize>>
        IN /\ AddedItem.size = 2 * cellSize
           /\ (list = <<>>) => (AddedItem.x = 0 /\ AddedItem.y = 0)
           /\ (clear # {}) =>
                /\ AddedItem.x = at[1] * cellSize
                /\ AddedItem.y = at[2] * cellSize
                /\ at \in clear
                /\ \A q \in clear :
                      ~(q[2] < at[2] \/ (q[2] = at[2] /\ q[1] < at[1]))

\* C7 witness: an item was added to a canvas holding an item dragged off the
\* grid lines, and went to a block that is not the top-left one.
C7_Witness ==
    /\ AddedOne
    /\ AtRest
    /\ last.pre # <<>>
    /\ \E i \in DOMAIN last.pre : last.pre[i].x % cellSize # 0
    /\ ClearBlocks(last.pre, gridColumns, cellSize) # {}
    /\ AddedItem.x > 0

----------------------------------------------------------------------------
(* Properties of bulk placement, read off the canvas an addMultipleNFTs    *)
(* call leaves                                                             *)

\* A bulk request with at least one reference has just run.
Bulk == alive /\ last.op = "addMultipleNFTs" /\ last.nfts # <<>>

References(a) == Cardinality({i \in DOMAIN last.nfts : last.nfts[i] = a})
Placements(a) == Cardinality({i \in DOMAIN items : items[i].nft = a})

\* The grid cells the square of an item covers.
Covers(item, cs) ==
    {<<c, r>> :
        c \in (item.x \div cs)..((item.x + item.size - 1) \div cs),
        r \in (item.y \div cs)..((item.y + item.size - 1) \div cs)}

\* Every cell of the grid is covered by an item.
GridCovered ==
    \A c \in 0..(gridColumns - 1), r \in 0..(gridColumns - 1) :
        \E i \in DOMAIN items : <<c, r>> \in Covers(items[i], cellSize)

\* C8 (as stated): every reference handed to a bulk placement gets a
\* placement of its own, for any column count.
C8_EveryInputPlaced ==
    Bulk => \A a \in Range(last.nfts) : Placements(a) >= References(a)

\* C8 (amended): every reference handed to a bulk placement gets a placement
\* of its own, unless the placements cover every cell of the grid.
C8_EveryInputPlacedOrGridFull ==
    Bulk => \/ GridCovered
            \/ \A a \in Range(last.nfts) : Placements(a) >= References(a)

\* C8 witness: on 4 columns several references were placed, the later ones
\* as single cells because no larger block fits, and cells are left over.
C8_Witness ==
    /\ Bulk
    /\ gridColumns = 4
    /\ Len(last.nfts) >= 2
    /\ ~GridCovered
    /\ \E i \in DOMAIN items : items[i].size = cellSize
    /\ \A a \in Range(last.nfts) : Placements(a) >= References(a)

\* C9: with no more references than the requested count, a bulk placement
\* yields exactly the requested count, and fewer only when every cell of
\* the grid is covered.
C9_CountReached ==
    (Bulk /\ Len(last.nfts) <= last.minCount)
        => \/ Len(items) = last.minCount
           \/ (Len(items) < last.minCount /\ GridCovered)

\* C9 witness: 5 references, requested count 8, 12 columns: 8 placements.
C9_Witness ==
    /\ Bulk
    /\ gridColumns = 12
    /\ Len(last.nfts) = 5
    /\ last.minCount = 8
    /\ Len(items) = 8

\* C10: no two placements of one bulk placement cover a common cell; each
\* is a square of 1, 2 or 3 cells on the grid lines, inside the canvas.
C10_NoOverlapInBounds ==
    Bulk =>
        /\ \A i \in DOMAIN items :
              /\ items[i].size \in {cellSize, 2 * cellSize, 3 * cellSize}
              /\ items[i].x % cellSize = 0
              /\ items[i].y % cellSize = 0
              /\ InBounds(items[i])
        /\ \A i, j \in DOMAIN items :
              i # j => Covers(items[i], cellSize) \cap Covers(items[j], cellSize)
                          = {}

\* C10 witness: one bulk placement produced blocks of 3, 2 and 1 cells.
C10_Witness ==
    /\ Bulk
    /\ \A m \in 1..3 : \E i \in DOMAIN items : items[i].size = m * cellSize

-----------------------------------------------------------------------------
(* Clearing the canvas                                                     *)

\* C11: a clearCanvas step, from any state, leaves an empty list and no
\* active item, pushes exactly one history entry, the empty list, on a prefix
\* of the history, moves the index by one, calls onClearSelection once and
\* leaves the selection list of the parent empty; a selection that follows
\* the clear adds no asset but the newly selected one.
C11_ClearAll ==
    [][/\ last'.op = "clearCanvas" =>
            /\ items' = <<>>
            /\ activeItem' = 0
            /\ \E k \in 0..Len(history) :
                    history' = Append(SubSeq(history, 1, k), <<>>)
            /\ historyIndex' = historyIndex + 1
            /\ last'.pushes = 1
            /\ last'.signals = 1
            /\ selectedNFTs' = <<>>
       /\ (last.op = "clearCanvas" /\ last'.op = "selectNFT") =>
            /\ last'.pushes <= 1
            /\ Len(items') <= 1]_vars

\* A canvas with items and a selection has just been cleared.
C11_Witness ==
    /\ last.op = "clearCanvas"
    /\ last.pre # <<>>
    /\ items = <<>>
    /\ selectedNFTs = <<>>
    /\ Len(history) >= 2

-----------------------------------------------------------------------------
(* Reconciliation of the selection list with the canvas                    *)

\* The NFT of the selection event that has just run.
Pushed == last.nfts[1]

\* The canvas items that hold the record a.
ItemsOf(list, a) == {i \in DOMAIN list : list[i].nft = a}

\* C12: when a selection event carries a record that an earlier selection
\* event carried (it is in the selection list already), and only selection
\* events and pointer presses ran in between, the canvas holds exactly one
\* item for that record after the event.
C12_ExactlyOneItem ==
    [][(last'.op = "selectNFT" /\ last'.nfts[1] \in Range(selectedNFTs))
          => Cardinality(ItemsOf(items', last'.nfts[1])) = 1]_vars

\* The half of C12 that the canvas keeps: no record is held by two items.
NeverDuplicated ==
    \A i, j \in DOMAIN items :
        nftId(items[i].nft) = nftId(items[j].nft) => i = j

\* The identity key as the claim C13 orders it: the contract and token pair,
\* otherwise the id, otherwise the image URL.
KeyByClaim(nft) ==
    IF nft.contract # "" /\ nft.identifier # ""
    THEN <<nft.contract, "-", nft.identifier>>
    ELSE IF nft.contract_address # "" /\ nft.token_id # ""
    THEN <<nft.contract_address, "-", nft.token_id>>
    ELSE IF nft.id # "" THEN <<"id", nft.id>>
    ELSE <<nft.image_url>>

\* C13: a selected record is added to the canvas if and only if its key, in
\* the order contract and token pair, id, image URL, differs from the key of
\* every item on the canvas; two records without contract and token, with
\* different ids and the same image URL, are both added.
C13_KeyFallbackOrder ==
    [][last'.op = "selectNFT" =>
          LET a == last'.nfts[1]
              added == \E i \in DOMAIN items' :
                          items'[i].nft = a /\ items'[i].id \notin Ids(items)
              fresh == \A i \in DOMAIN items :
                          KeyByClaim(items[i].nft) # KeyByClaim(a)
          IN added <=> fresh]_vars

-----------------------------------------------------------------------------
(* Crop                                                                    *)

\* C14: after updateCrop with any arguments the stored crop of every item has
\* x and y in 0..100, width and height of at least 10, x + width <= 100 and
\* y + height <= 100; x = 90 with width = 50 is stored as width = 10.
C14_CropInvariant ==
    \A i \in DOMAIN items :
        LET item == items[i]
        IN /\ 0 <= item.cropX /\ item.cropX <= 100
           /\ 0 <= item.cropY /\ item.cropY <= 100
           /\ item.cropWidth >= 10
           /\ item.cropHeight >= 10
           /\ item.cropX + item.cropWidth <= 100
           /\ item.cropY + item.cropHeight <= 100
           /\ updateCrop(item, 90, 0, 50, 100).cropWidth = 10

-----------------------------------------------------------------------------
(* Resizing                                                                *)

\* The frame a pointer at target produces shrinks the item that is resized
\* from its 'w' handle to a size of 0 or below.
ShrinksAway(target) ==
    /\ isResizing
    /\ resizeDirection = "w"
    /\ activeItem \in Ids(items)
    /\ initialItemState # NoItem
    /\ initialItemState.size - (target.x - interactionStart.x) <= 0

\* C15: a frame of a resize from the 'w' handle whose pointer delta would
\* take the size to 0 or below leaves the item with a size of exactly one
\* grid cell and with its east edge x + size where it was when the gesture
\* started.
C15_WestShrinkClamp ==
    [][\A target \in PointerTargets :
          (ShrinksAway(target) /\ MouseMove(target)) =>
              LET item == ItemById(items', activeItem)
              IN /\ item.size = cellSize
                 /\ item.x + item.size =
                        initialItemState.x + initialItemState.size]_vars

\* C16: with the column count fixed, every item has a size of at least one
\* grid cell and at most min(100 - x, 100 - y).
C16_MinimumSize ==
    \A i \in DOMAIN items :
        /\ cellSize <= items[i].size
        /\ items[i].size <= Min(Pct(100) - items[i].x, Pct(100) - items[i].y)

-----------------------------------------------------------------------------
(* selectItem                                                              *)

\* The list differs from the list before in nothing but zIndex values.
SameButZ(before, after) ==
    /\ Len(after) = Len(before)
    /\ \A i \in DOMAIN before :
          after[i] = [before[i] EXCEPT !.zIndex = after[i].zIndex]

\* C17: a selectItem(id) with the id of an item (called on its own or by a
\* pointer press) makes that item the active one and gives it a zIndex
\* strictly greater than the zIndex of every other item; the zIndex of the
\* other items and the position, size, crop and order of all items stay.
C17_SelectItemPresent ==
    [][(last'.op \in {"selectItem", "mouseDown"} /\ activeItem' \in Ids(items))
          => /\ SameButZ(items, items')
             /\ \A i \in DOMAIN items :
                   IF items[i].id = activeItem'
                   THEN \A j \in DOMAIN items :
                           j # i => items'[i].zIndex > items'[j].zIndex
                   ELSE items'[i].zIndex = items[i].zIndex]_vars

\* Three items, and a selectItem has just raised the one added first above
\* the other two.
C17_Witness ==
    /\ last.op \in {"selectItem", "mouseDown"}
    /\ Len(items) = 3
    /\ activeItem = items[1].id
    /\ items[1].zIndex > items[2].zIndex
    /\ items[1].zIndex > items[3].zIndex
    /\ last.pre[1].zIndex < last.pre[3].zIndex

\* C18: selectItem(id) with an id that no item has leaves the item list, the
\* active item and the history as they were.
C18_SelectItemAbsent ==
    [][(AbsentId \notin Ids(items) /\ SelectItem(AbsentId))
          => UNCHANGED <<items, activeItem, history, historyIndex>>]_vars

-----------------------------------------------------------------------------
(* addNFT                                                                  *)

\* The item is as addNFT builds it for the list before: the crop is the full
\* image and the geometry is one that findEmptyPosition returns for before.
FreshItem(item, before) ==
    /\ item.cropX = 0 /\ item.cropY = 0
    /\ item.cropWidth = 100 /\ item.cropHeight = 100
    /\ item.id \notin Ids(before)
    /\ [x |-> item.x, y |-> item.y, size |-> item.size]
          \in findEmptyPosition(before, cellSize)

\* C19: every addNFT call appends exactly one item at the end of the list,
\* with the full crop and the geometry of findEmptyPosition for the list it is
\* appended to, makes it the active item, leaves the items before it as they
\* were and pushes exactly one history entry; a selection that makes k calls
\* therefore ends with k more items and k more history entries, the last of
\* them the new list.
C19_AddAppendsOne ==
    [][(last'.op = "selectNFT" /\ last'.pushes >= 1) =>
          LET k == last'.pushes
              n == Len(items)
          IN /\ Len(items') = n + k
             /\ SubSeq(items', 1, n) = items
             /\ \A j \in 1..k :
                   FreshItem(items'[n + j], SubSeq(items', 1, n + j - 1))
             /\ activeItem' = items'[n + k].id
             /\ historyIndex' = historyIndex + k
             /\ Len(history') >= k
             /\ history'[Len(history')] = items'
             /\ \E m \in 0..Len(history) :
                   /\ Len(history') = m + k
                   /\ SubSeq(history', 1, m) = SubSeq(history, 1, m)]_vars

\* C20: right after an addNFT, on a canvas reached by adds and selectItem
\* calls, the new item is the active one and its zIndex is strictly greater
\* than the zIndex of every other item.
C20_NewItemOnTop ==
    AddedOne =>
        /\ activeItem = AddedItem.id
        /\ \A i \in 1..(Len(items) - 1) : AddedItem.zIndex > items[i].zIndex

-----------------------------------------------------------------------------
(* removeItem                                                              *)

\* The list after is the list before without its element at position p.
WithoutPosition(before, after, p) ==
    after = SubSeq(before, 1, p - 1) \o SubSeq(before, p + 1, Len(before))

\* C21: removeItem(id) takes exactly the item with that id out of the list
\* and keeps the other items and their order (nothing changes when no item has
\* the id); the active item becomes none if it was id and stays otherwise;
\* exactly one history entry, the new list, is pushed.
C21_RemoveItem ==
    [][\A id \in Ids(items) \cup {AbsentId} :
          RemoveById(id) =>
             /\ IF id \in Ids(items)
                THEN \E p \in DOMAIN items :
                        items[p].id = id /\ WithoutPosition(items, items', p)
                ELSE items' = items
             /\ activeItem' = IF activeItem = id THEN 0 ELSE activeItem
             /\ historyIndex' = historyIndex + 1
             /\ \E k \in 0..Len(history) :
                    history' = Append(SubSeq(history, 1, k), items')]_vars

\* The middle one of three items has just been removed while another item
\* was, and still is, the active one.
C21_Witness ==
    /\ last.op = "removeItem"
    /\ Len(last.pre) = 3
    /\ items = <<last.pre[1], last.pre[3]>>
    /\ activeItem \in Ids(items)

-----------------------------------------------------------------------------
(* Handlers without an item to act on                                      *)

\* No item is active, or the active id is the id of no item in the list.
NoActiveItemData == activeItem = 0 \/ activeItem \notin Ids(items)

\* C22: moveActiveItem, resizeActiveItem, updateCrop, a pointer-move frame
\* and a pointer-up that run when no item is active, or when the active id is
\* the id of no item in the list, change neither the item list nor the
\* history: no entry is pushed and the index does not move.
C22_SilentNoOp ==
    [][(/\ NoActiveItemData
        /\ last'.op \in {"moveActiveItem", "resizeActiveItem", "updateCrop",
                         "mouseMove", "mouseUp"})
          => UNCHANGED <<items, history, historyIndex>>]_vars

-----------------------------------------------------------------------------
(* Export                                                                  *)

\* In this step call j fails because the canvas element or the 2d context
\* is missing (a new call that is over at once) or because toBlob yields no
\* blob.
PipelineFails(j) ==
    \/ j \notin DOMAIN jobs /\ jobs'[j].pc = "failed"
    \/ j \in DOMAIN jobs /\ jobs[j].pc = "encode" /\ jobs'[j].pc = "hung"

\* C23: when an export fails because the canvas element or the 2d context
\* is unavailable, or because encoding yields no blob, exportStatus becomes
\* 'error' with a message that carries a reason, and the item list, the
\* selection and the history are left as they were.
C23_PipelineFailure ==
    [][\A j \in DOMAIN jobs' :
          PipelineFails(j) =>
             /\ exportStatus' = "error"
             /\ Len(exportMessage') = 2
             /\ exportMessage'[2] # ""
             /\ UNCHANGED <<items, activeItem, selectedNFTs, history,
                            historyIndex>>]_vars

\* C24: an export in progress is eventually no longer in progress, and a
\* success or error status is eventually followed by idle, with no help from
\* the user.
C24_ExportSettles ==
    /\ (exportStatus = "exporting") ~> (exportStatus # "exporting")
    /\ (exportStatus \in {"success", "error"}) ~> (exportStatus = "idle")

\* What C25 asks of one call: the items whose image failed are not drawn,
\* the items whose image loaded are drawn once each, in the order they were
\* loaded (when each got its context), and the only call that ends without a
\* blob and without hanging on toBlob is one that failed before any load.
LoadsIsolated(job) ==
    /\ Range(job.failed) \cap Range(job.drawn) = {}
    /\ Len(job.loaded) + Len(job.failed) + Len(job.queue) = Len(job.items)
    /\ job.noContext = <<>> => job.drawn = job.loaded
    /\ (job.pc = "failed" /\ ~job.blob) =>
            (job.loaded = <<>> /\ job.failed = <<>>)
    /\ job.pc = "done" => job.blob

\* C25: whatever subset of the images fails to load, the failed items are
\* skipped, every item whose image loads is drawn exactly once, the export
\* goes on to produce its blob, and the step that delivers the blob sets
\* exportStatus to 'success'.
C25_LoadFailureIsolated ==
    [][\A j \in DOMAIN jobs' :
          /\ LoadsIsolated(jobs'[j])
          /\ (j \in DOMAIN jobs /\ jobs[j].pc # "done" /\ jobs'[j].pc = "done")
                => exportStatus' = "success"]_vars

\* A download of two items has ended in success although the image of one
\* of them failed to load; the other one was drawn.
C25_Witness ==
    \E j \in DOMAIN jobs :
        /\ jobs[j].pc = "done"
        /\ Len(jobs[j].failed) = 1
        /\ Len(jobs[j].drawn) = 1
        /\ exportStatus = "success"

\* The reasons of the failures of the export pipeline itself.
PipelineReasons ==
    {"Canvas element not found", "Could not get canvas context",
     "Failed to create image blob"}

\* C26: when navigator.clipboard.write is missing, copyToClipboard ends with
\* exportStatus 'error' and a reason that names the missing clipboard
\* support, which is none of the reasons of the export pipeline; the blob has
\* been produced by then and no error goes uncaught.
C26_ClipboardUnsupported ==
    [][\A j \in DOMAIN jobs :
          (jobs[j].pc = "encode" /\ jobs'[j].clipboard = "absent") =>
             /\ exportStatus' = "error"
             /\ exportMessage' = <<"Copy failed: ", "Clipboard API not supported">>
             /\ exportMessage'[2] \notin PipelineReasons
             /\ jobs'[j].blob
             /\ jobs'[j].pc = "failed"
             /\ uncaught' = uncaught]_vars

\* A copy has just failed for want of the clipboard API, with its blob made.
C26_Witness ==
    \E j \in DOMAIN jobs :
        /\ jobs[j].kind = "copy"
        /\ jobs[j].clipboard = "absent"
        /\ jobs[j].blob
        /\ exportStatus = "error"
        /\ exportMessage = CopyFailed("Clipboard API not supported")

\* The position of an item in the list of the render that exported it.
ListPosition(job, item) == CHOOSE i \in DOMAIN job.items : job.items[i] = item

\* C27: the items an export has drawn so far were drawn in ascending zIndex
\* order, and of two drawn items with the same zIndex the one that comes
\* first in the item list was drawn first.
C27_PaintOrder ==
    \A j \in DOMAIN jobs :
        \A a, b \in DOMAIN jobs[j].drawn :
            a < b =>
                LET first == jobs[j].drawn[a]
                    second == jobs[j].drawn[b]
                IN \/ first.zIndex < second.zIndex
                   \/ /\ first.zIndex = second.zIndex
                      /\ ListPosition(jobs[j], first)
                            < ListPosition(jobs[j], second)

\* An export has drawn two items, the second of the list before the first,
\* because a pointer press had raised the first.
C27_Witness ==
    \E j \in DOMAIN jobs :
        /\ Len(jobs[j].drawn) = 2
        /\ jobs[j].drawn[1] = jobs[j].items[2]
        /\ jobs[j].drawn[2] = jobs[j].items[1]

\* C28: the Add button with an address that is not 0x followed by exactly
\* 40 hexadecimal characters, or with an (address, chain) pair that is
\* already listed, leaves the wallet list as it was, shows an error message
\* and does not call onChange; and the list never holds an address of
\* another shape, nor one (address, chain) pair twice.
ShapeByClaim(a) ==
    /\ Len(a) = 2 + 40
    /\ SubSeq(a, 1, 2) = <<"0", "x">>
    /\ Range(SubSeq(a, 3, Len(a))) \subseteq HexDigits

ListedByClaim(a, c) ==
    [address |-> a, chain |-> c] \in Range(localWallets)

WalletListClean ==
    /\ \A i \in DOMAIN localWallets : ShapeByClaim(localWallets[i].address)
    /\ \A i, j \in DOMAIN localWallets :
          (/\ localWallets[i].address = localWallets[j].address
           /\ localWallets[i].chain = localWallets[j].chain) => i = j

C28_WalletValidation ==
    [][/\ WalletListClean'
       /\ (/\ last'.op = "handleAdd"
           /\ \/ ~ShapeByClaim(address)
              \/ ListedByClaim(address, chain))
          => /\ localWallets' = localWallets
             /\ wallets' = wallets
             /\ error' # ""
             /\ onChangeCalls' = onChangeCalls]_vars

\* A second Add of a listed pair has just been refused: one wallet listed,
\* one onChange call.
C28_Witness ==
    /\ last.op = "handleAdd"
    /\ error = "Wallet already added"
    /\ ListedByClaim(address, chain)
    /\ Len(localWallets) = 1
    /\ onChangeCalls = 1

\* C29: after a selection event whose list holds k >= 1 assets with keys
\* that differ from one another and from the key of every item on the
\* canvas, all k are on the canvas: the list has grown by k items, one per
\* such asset in the order of the selection, each at a slot that
\* findEmptyPosition gives for the list with the earlier ones placed.
AbsentAssets(sel, list) ==
    SelectSeq(sel, LAMBDA a :
        \A i \in DOMAIN list : KeyByClaim(list[i].nft) # KeyByClaim(a))

C29_ReconcileAddsAll ==
    [][LET absent == AbsentAssets(selectedNFTs', items)
           k == Len(absent)
           n == Len(items)
       IN (/\ last'.op = "selectNFT"
           /\ selectedNFTs' # selectedNFTs
           /\ k >= 1
           /\ \A i, j \in 1..k :
                 KeyByClaim(absent[i]) = KeyByClaim(absent[j]) => i = j)
          => /\ Len(items') = n + k
             /\ \A j \in 1..k :
                   /\ items'[n + j].nft = absent[j]
                   /\ [x |-> items'[n + j].x, y |-> items'[n + j].y,
                       size |-> items'[n + j].size]
                         \in findEmptyPosition(SubSeq(items', 1, n + j - 1),
                                               cellSize)]_vars

\* C30: in a resize from a corner handle (ne, nw, se, sw) the size changes
\* by the one of the two axis deltas, each oriented so that positive means
\* growing, that has the larger absolute value, whatever the signs of the
\* two are, also when both shrink: the frame of the pointer move leaves the
\* item as a resize by that delta from the handle's horizontal edge does.
Abs(n) == IF n >= 0 THEN n ELSE -n

CornerDirections == {"ne", "nw", "se", "sw"}

\* The two axis deltas, oriented so that positive means growing.
GrowthX(direction, deltaX) ==
    IF direction \in {"ne", "se"} THEN deltaX ELSE -deltaX
GrowthY(direction, deltaY) ==
    IF direction \in {"se", "sw"} THEN deltaY ELSE -deltaY

\* The one with the larger absolute value (either, when they are equal).
DeltaByClaim(direction, deltaX, deltaY) ==
    LET gx == GrowthX(direction, deltaX)
        gy == GrowthY(direction, deltaY)
    IN {d \in {gx, gy} : Abs(d) >= Abs(gx) /\ Abs(d) >= Abs(gy)}

C30_CornerDelta ==
    [][\A target \in PointerTargets :
          (/\ MouseMove(target)
           /\ isResizing
           /\ resizeDirection \in CornerDirections
           /\ initialItemState # NoItem
           /\ activeItem \in Ids(items))
          => \E d \in DeltaByClaim(resizeDirection,
                                   target.x - interactionStart.x,
                                   target.y - interactionStart.y) :
                ItemById(items', activeItem) =
                    IF resizeDirection \in {"ne", "se"}
                    THEN resizeFrame(ItemById(items, activeItem),
                                     initialItemState, "e", d, 0,
                                     listener.snapToGrid,
                                     cellSizeOf(listener.gridColumns))
                    ELSE resizeFrame(ItemById(items, activeItem),
                                     initialItemState, "w", -d, 0,
                                     listener.snapToGrid,
                                     cellSizeOf(listener.gridColumns))]_vars

\* C31: with snapping off, while the new size stays between one cell and
\* the limits of the canvas, a resize from a handle that moves the west edge
\* (w, nw, sw) keeps x + size at its value at the start of the gesture, and
\* a resize from a handle that moves the north edge (n, ne, nw) keeps
\* y + size at its value at the start of the gesture.
WestHandles == {"w", "nw", "sw"}
NorthHandles == {"n", "ne", "nw"}

\* The size the frame asks for is kept as it is: not below one cell, not
\* cut at the canvas edge, and the edge that moves stays on the canvas.
SizeKept(item, init, direction, target, cs) ==
    LET grown == init.size + effectiveDelta(direction,
                                            target.x - interactionStart.x,
                                            target.y - interactionStart.y)
    IN /\ grown >= cs
       /\ item.size = grown
       /\ direction \in WestHandles => init.x + init.size - grown >= 0
       /\ direction \in NorthHandles => init.y + init.size - grown >= 0

C31_OppositeEdgeFixed ==
    [][\A target \in PointerTargets :
          (/\ MouseMove(target)
           /\ isResizing
           /\ ~listener.snapToGrid
           /\ initialItemState # NoItem
           /\ activeItem \in Ids(items)
           /\ SizeKept(ItemById(items', activeItem), initialItemState,
                       resizeDirection, target,
                       cellSizeOf(listener.gridColumns)))
          => LET item == ItemById(items', activeItem)
                 init == initialItemState
             IN /\ resizeDirection \in WestHandles =>
                       item.x + item.size = init.x + init.size
                /\ resizeDirection \in NorthHandles =>
                       item.y + item.size = init.y + init.size]_vars

-----------------------------------------------------------------------------
(* Filling the blank cells                                                 *)

Filled == alive /\ last.op = "fillBlankTiles" /\ last.nfts # <<>>

\* The tiles the last fill added.
AddedTiles == (Len(last.pre) + 1)..Len(items)

\* Two squares share a region of positive area.
SquaresOverlap(a, b) ==
    /\ a.x < b.x + b.size
    /\ b.x < a.x + a.size
    /\ a.y < b.y + b.size
    /\ b.y < a.y + a.size

\* C32: a fill leaves the items that were there at the head of the list,
\* unchanged and in their order; every tile it adds is one cell large, on
\* the grid lines, inside the canvas, on a cell that no earlier item reaches
\* into, and overlaps neither an earlier item nor another added tile.
C32_FillKeepsExisting ==
    Filled =>
        /\ Len(items) >= Len(last.pre)
        /\ SubSeq(items, 1, Len(last.pre)) = last.pre
        /\ \A t \in AddedTiles :
              /\ items[t].size = cellSize
              /\ items[t].x % cellSize = 0
              /\ items[t].y % cellSize = 0
              /\ InBounds(items[t])
              /\ \A i \in DOMAIN last.pre :
                    /\ <<items[t].x \div cellSize, items[t].y \div cellSize>>
                          \notin FootprintExclusive(last.pre[i], cellSize)
                    /\ ~SquaresOverlap(items[t], last.pre[i])
              /\ \A u \in AddedTiles :
                    u # t => ~SquaresOverlap(items[t], items[u])

\* C32 witness: a fill added tiles around two items, one of them off the
\* grid lines of the 4-column canvas.
C32_Witness ==
    /\ Filled
    /\ gridColumns = 4
    /\ Len(last.pre) = 2
    /\ \E i \in DOMAIN last.pre : last.pre[i].x % cellSize # 0
    /\ Len(items) > Len(last.pre) + 2

\* The cells of the grid that no item of the list covers.
UnoccupiedCells(list) ==
    {c \in (0..(gridColumns - 1)) \X (0..(gridColumns - 1)) :
        \A i \in DOMAIN list : c \notin Covers(list[i], cellSize)}

\* C33: a fill from a non-empty pool stops as soon as every image of the
\* pool has been assigned once or no unoccupied cell is left: it adds
\* min(size of the pool, number of unoccupied cells) tiles.
C33_FillStops ==
    Filled =>
        Cardinality(AddedTiles)
            = Min(Len(last.nfts), Cardinality(UnoccupiedCells(last.pre)))

-----------------------------------------------------------------------------
(* The window listeners                                                    *)

\* C34: the window's pointer-move and pointer-up handlers are registered if
\* and only if a drag or a resize is in progress; after the pointer-up that
\* ends a gesture none is registered; and however many gestures were made,
\* at most one handler of each kind is registered.
C34_ListenerLifetime ==
    alive =>
        /\ (registered # {}) <=> (isDragging \/ isResizing)
        /\ Cardinality(registered) <= 1
        /\ last.op = "mouseUp" => registered = {}

\* C34 witness: a third gesture has begun, after two that were ended by a
\* pointer-up; the handlers on the window are those of the last render.
C34_Witness ==
    /\ alive
    /\ steps >= 5
    /\ last.op \in {"mouseDown", "resizeStart"}
    /\ last.prev = "mouseUp"
    /\ registered = {steps}

-----------------------------------------------------------------------------
(* Exports in flight                                                       *)

\* The calls of downloadCanvas and copyToClipboard that still have an image
\* to load, a blob to encode or a clipboard write to wait for.
InFlight == {j \in DOMAIN jobs : jobs[j].pc \in {"load", "encode", "write"}}

\* C35: with the export buttons disabled while the status is 'exporting', at
\* most one export is in flight at any time, whatever the order of export
\* completions, clicks and reset timers of earlier exports; the status is
\* 'exporting' for as long as an export is in flight.
C35_SingleExport ==
    /\ Cardinality(InFlight) <= 1
    /\ InFlight # {} => exportStatus = "exporting"

-----------------------------------------------------------------------------
(* Interaction modes                                                       *)

\* C36: the canvas is never dragging and resizing at once, a resize
\* direction is set only while resizing, and every pointer-up leaves
\* dragging and resizing false, the resize direction none and the item
\* state captured at the start of the gesture cleared.
C36_ModesExclusive ==
    alive =>
        /\ ~(isDragging /\ isResizing)
        /\ resizeDirection # "none" => isResizing
        /\ last.op = "mouseUp" =>
              /\ ~isDragging
              /\ ~isResizing
              /\ resizeDirection = "none"
              /\ initialItemState = NoItem

-----------------------------------------------------------------------------
(* The active item                                                         *)

\* C37: in every state reached by adds, removals, clears, bulk adds,
\* selections, undo and redo, the active item is none or the id of an item
\* of the live list, also after an undo that takes the active item off the
\* list.
C37_SelectionValid ==
    alive => (activeItem = 0 \/ activeItem \in Ids(items))

-----------------------------------------------------------------------------
(* Bulk placement and the canvas before it                                 *)

\* C38: a bulk placement with a non-empty input discards every item that
\* was on the canvas, clears the active item, makes the live list the new
\* placements (zIndex 1..k in list order, all distinct), pushes one history
\* entry equal to that list and does not signal a clear to the parent; with
\* an empty input it changes nothing and pushes no entry.
C38_BulkReplaces ==
    [][last'.op = "addMultipleNFTs" =>
          IF last'.nfts # <<>>
          THEN /\ Ids(items') \cap Ids(items) = {}
               /\ \A i \in DOMAIN items' : items'[i].id >= nextId
               /\ items' # <<>>
               /\ activeItem' = 0
               /\ \A i \in DOMAIN items' : items'[i].zIndex = i
               /\ historyIndex' = historyIndex + 1
               /\ history' # <<>>
               /\ history'[Len(history')] = items'
               /\ \E m \in 0..Len(history) :
                     /\ Len(history') = m + 1
                     /\ SubSeq(history', 1, m) = SubSeq(history, 1, m)
               /\ last'.signals = 0
               /\ selectedNFTs' = selectedNFTs
          ELSE /\ UNCHANGED <<items, activeItem, history, historyIndex>>
               /\ last'.pushes = 0]_vars

\* C38 witness: a bulk placement of two images has replaced a canvas that
\* held two items, one of them active.
C38_Witness ==
    /\ Bulk
    /\ Len(last.nfts) = 2
    /\ Len(last.pre) = 2
    /\ last.prev = "selectNFT"
    /\ Ids(items) \cap Ids(last.pre) = {}
    /\ activeItem = 0

-----------------------------------------------------------------------------
(* Placements of findEmptyPosition and the items already there             *)

PairwiseApart(list) ==
    \A i, j \in DOMAIN list : i # j => ~SquaresOverlap(list[i], list[j])

\* C39: whenever findEmptyPosition finds a free block (not the random
\* fallback), the square it returns lies inside the canvas and overlaps no
\* item of the list, wherever the items are and whatever their sizes; so a
\* list of pairwise non-overlapping items stays one when an item is added.
C39_PlacementApart ==
    (AddedOne /\ FreeBlocks(last.pre, cellSize) # {}) =>
        /\ InBounds(AddedItem)
        /\ \A i \in DOMAIN last.pre : ~SquaresOverlap(AddedItem, last.pre[i])
        /\ PairwiseApart(last.pre) => PairwiseApart(items)

\* C39 witness: a third item went to a free block of a canvas on which one
\* of the two items had been dragged off the grid lines.
C39_Witness ==
    /\ AddedOne
    /\ Len(last.pre) = 2
    /\ FreeBlocks(last.pre, cellSize) # {}
    /\ \E i \in DOMAIN last.pre :
          last.pre[i].x % cellSize # 0 /\ last.pre[i].y % cellSize # 0
    /\ PairwiseApart(items)

-----------------------------------------------------------------------------
(* Wallet data                                                             *)

AllFetched == \A j \in DOMAIN fetches : fetches[j].pc = "done"

\* C40: when the wallet list changed while a fetch for the list before it
\* was in flight, then once every fetch has completed the collections and
\* nfts of the hook are those fetched for the latest wallet list (nothing
\* for an empty list), loading is false, and no two collections have the
\* same slug.
C40_LatestWalletsWin ==
    AllFetched =>
        /\ loading = FALSE
        /\ \A i, j \in DOMAIN collections :
              collections[i].slug = collections[j].slug => i = j
        /\ IF wallets = <<>>
           THEN collections = <<>> /\ walletNfts = <<>>
           ELSE LET latest == fetches[Len(fetches)]
                IN /\ latest.wallets = wallets
                   /\ collections = uniqueCollections(latest.allCollections)
                   /\ walletNfts = latest.allNFTs

====
